---- MODULE Spec2Model ----
(***************************************************************************)
(* Model of the realtime conversation engine (ChatService) of express-ts.  *)
(* The persistent collections (Conversation, ConversationParticipant,      *)
(* Message) are sequences of documents in insertion order; a document's id *)
(* is its position.  Every awaited store call of a service method is one   *)
(* step of the calling connection; the "Seq" actions run a whole method    *)
(* without any interleaving.                                               *)
(***************************************************************************)
EXTENDS Integers, Sequences, FiniteSets, TLC

\* ---------------------------------------------------------------- bounds
MaxConvs == 1
MaxMsgs == 2
MaxClock == 1
MaxReactions == 3
MaxVersion == 4
MemberMsgs == 3

Users == {1, 2, 3}
Procs == {1, 2}
Emojis == {"like"}

\* a user outside every conversation, the lists given to addParticipants
\* and the names and lists given to createGroupConversation
Newcomers == {4}
MemberIdLists == {<<2>>, <<4>>, <<2, 4>>}
GroupNames == {"Trip", " ", ""}
GroupIdLists == {<<2, 3>>, <<1, 2>>, <<2, 2>>, <<2>>}

\* the users that edit and delete, and the messages they do it on
EditUsers == {1, 2}
EditMsgs == 1
AttachmentLists == {<<>>, <<"file">>}

\* the users that react, send and read in the reaction and receipt scenarios
ReactUsers == {1, 2}
ReactMsgs == 1
ReadUsers == {1, 2}
Readers == {2}

\* TTL.TYPING, in seconds; the typing scenario's clock runs past two lifetimes
TypingTTL == 3
MaxTypingClock == 7
TypingUsers == {1, 2}
TypingConvs == {1}

\* the packets of the fan-out scenario and the backend process of each connection
MaxPackets == 2
SocketProcess == <<1, 2, 1>>

VARIABLES convs, parts, msgs, typing, clock, pc, loc, last, prev, directRet,
          socks, emits, ack, online, presence

\* the persistent collections, the typing keys and the callers' positions
storeVars == <<convs, parts, msgs, typing, clock, pc, loc, last, prev, directRet>>

\* the connections with their rooms, what the last handler emitted and
\* acknowledged, and the presence keys
sockVars == <<socks, emits, ack, online, presence>>

vars == <<storeVars, sockVars>>

\* ---------------------------------------------------------------- helpers
Range(s) == {s[i] : i \in DOMAIN s}

RECURSIVE SeqFilterIdx(_, _, _)
\* the sub-sequence of s at the positions in keep, in order, from position i
SeqFilterIdx(s, keep, i) ==
  IF i > Len(s) THEN <<>>
  ELSE IF i \in keep THEN <<s[i]>> \o SeqFilterIdx(s, keep, i + 1)
       ELSE SeqFilterIdx(s, keep, i + 1)

Min(S) == CHOOSE x \in S : \A y \in S : x <= y

CountOf(s, x) == Cardinality({i \in DOMAIN s : s[i] = x})

\* ghost record of a whole-method call: what was called, with what, what
\* it returned and the part of the state before it that a claim refers to
NoCall == [op |-> "none", args |-> <<>>, ok |-> FALSE, ret |-> 0, pre |-> 0]

Idle == [op |-> "none"]

\* the connections of the scenarios, a connection that is not open, the
\* acknowledgment before any handler ran and a presence hash never written
Sockets == {1, 2, 3}
\* the user of each connection's access token: user 2 has two devices
SocketUser == <<1, 2, 2>>
\* the connections of the join scenario
JoinSockets == {1, 2}
\* the connections of the event scenarios: user 1 is a member of the group,
\* user 2 is one when the group is made of users 1, 2, 3 and none when it is
\* made of users 1, 3, 4
EventSockets == {1, 2}
NoSocket == [userId |-> 0, connected |-> FALSE, rooms |-> {}]
NoAck == [event |-> "none", socket |-> 0, args |-> <<>>, success |-> FALSE, pre |-> 0]
NoPresence == [isOnline |-> FALSE, lastSeen |-> -1]
\* the replyTo ids a client sends: the first message, and a well-formed id
\* that no message has
ReplyIds == {1, 9}

\* ---------------------------------------------------------------- documents
\* [objectId1, objectId2].sort(localeCompare)
SortPair(a, b) == IF a <= b THEN <<a, b>> ELSE <<b, a>>

DirectConv(creator, ps) ==
  [type |-> "direct", createdBy |-> creator, participants |-> ps, admins |-> ps,
   lastMessage |-> 0, lastMessagePreview |-> "", totalMessages |-> 0,
   pinnedMessages |-> <<>>, isActive |-> TRUE]

GroupConv(creator, ps) ==
  [type |-> "group", createdBy |-> creator, participants |-> ps,
   admins |-> <<creator>>, lastMessage |-> 0, lastMessagePreview |-> "",
   totalMessages |-> 0, pinnedMessages |-> <<>>, isActive |-> TRUE]

Participant(c, u, role) ==
  [conversationId |-> c, userId |-> u, role |-> role, isActive |-> TRUE,
   unreadCount |-> 0, lastReadMessageId |-> 0, isArchived |-> FALSE,
   leftAt |-> -1]

NewMessage(c, sender, type, content, now) ==
  [conversationId |-> c, senderId |-> sender, type |-> type, content |-> content,
   createdAt |-> now, reactions |-> <<>>, deliveredTo |-> <<>>, readBy |-> <<>>,
   attachments |-> <<>>, isEdited |-> FALSE, isDeleted |-> FALSE,
   deletedFor |-> <<>>, isPinned |-> FALSE, version |-> 0, replyTo |-> 0]

\* ---------------------------------------------------------------- indexes
\* unique index {type: 1, participants: 1}, partial on type = 'direct': one
\* index key per array element, a key may not repeat across documents
DirectIndexKeys(conv) ==
  IF conv.type = "direct" THEN Range(conv.participants) ELSE {}

UniqueDirectViolation(cs, conv) ==
  \E i \in DOMAIN cs : DirectIndexKeys(cs[i]) \cap DirectIndexKeys(conv) # {}

\* mutant of UniqueParticipantViolation: the collection has no unique index
NoParticipantIndex(ps, rec) == FALSE

\* unique index {conversationId: 1, userId: 1}
UniqueParticipantViolation(ps, rec) ==
  \E i \in DOMAIN ps : /\ ps[i].conversationId = rec.conversationId
                       /\ ps[i].userId = rec.userId

RECURSIVE InsertMany(_, _)
\* ordered insertMany: stops at the first duplicate key
InsertMany(ps, recs) ==
  IF recs = <<>> THEN ps
  ELSE IF UniqueParticipantViolation(ps, Head(recs)) THEN ps
       ELSE InsertMany(Append(ps, Head(recs)), Tail(recs))

\* ---------------------------------------------------------------- createDirectConversation
\* Conversation.findOne({type: direct, participants: {$all: [a,b], $size: 2}})
FindDirect(cs, pair) ==
  LET hits == {i \in DOMAIN cs : /\ cs[i].type = "direct"
                                 /\ Range(pair) \subseteq Range(cs[i].participants)
                                 /\ Len(cs[i].participants) = 2}
  IN IF hits = {} THEN 0 ELSE Min(hits)

\* ConversationParticipant.updateMany({conversationId, userId: {$in}},
\*                                    {$set: {isActive: true, leftAt: null}})
ReactivateParticipants(ps, c, us) ==
  [i \in DOMAIN ps |->
     IF ps[i].conversationId = c /\ ps[i].userId \in us
     THEN [ps[i] EXCEPT !.isActive = TRUE, !.leftAt = -1] ELSE ps[i]]

DirectParticipants(c, a, b) ==
  <<Participant(c, a, "admin"), Participant(c, b, "admin")>>

\* step 1: self check and lookup
CDLookup(p, a, b) ==
  /\ pc[p] = "idle"
  /\ a # b
  /\ pc' = [pc EXCEPT ![p] = "cd_lookedup"]
  /\ loc' = [loc EXCEPT ![p] = [op |-> "createDirect", a |-> a, b |-> b,
                                found |-> FindDirect(convs, SortPair(a, b)),
                                status |-> "running", ret |-> 0, raced |-> FALSE]]
  /\ last' = NoCall /\ prev' = NoCall
  /\ UNCHANGED <<convs, parts, msgs, typing, clock, directRet>>

\* step 2a: the conversation exists: reactivate and return it
CDReactivate(p) ==
  /\ pc[p] = "cd_lookedup"
  /\ loc[p].found # 0
  /\ parts' = ReactivateParticipants(parts, loc[p].found, {loc[p].a, loc[p].b})
  /\ pc' = [pc EXCEPT ![p] = "idle"]
  /\ loc' = [loc EXCEPT ![p].status = "ok", ![p].ret = loc[p].found]
  /\ directRet' = directRet \cup {<<loc[p].a, loc[p].b, loc[p].found>>}
  /\ last' = NoCall /\ prev' = NoCall
  /\ UNCHANGED <<convs, msgs, typing, clock>>

\* step 2b: Conversation.create; a duplicate key error ends the call
CDCreate(p) ==
  /\ pc[p] = "cd_lookedup"
  /\ loc[p].found = 0
  /\ LET conv == DirectConv(loc[p].a, SortPair(loc[p].a, loc[p].b))
         racers == {q \in Procs \ {p} :
                      /\ pc[q] = "cd_lookedup"
                      /\ loc[q].found = 0
                      /\ {loc[q].a, loc[q].b} = {loc[p].a, loc[p].b}}
     IN IF UniqueDirectViolation(convs, conv)
        THEN /\ pc' = [pc EXCEPT ![p] = "idle"]
             /\ loc' = [loc EXCEPT ![p].status = "error"]
             /\ UNCHANGED convs
        ELSE /\ Len(convs) < MaxConvs
             /\ convs' = Append(convs, conv)
             /\ pc' = [pc EXCEPT ![p] = "cd_created"]
             /\ loc' = [q \in Procs |->
                          IF q = p
                          THEN [loc[p] EXCEPT !.ret = Len(convs) + 1,
                                              !.raced = (racers # {})]
                          ELSE IF q \in racers
                               THEN [loc[q] EXCEPT !.raced = TRUE]
                               ELSE loc[q]]
  /\ last' = NoCall /\ prev' = NoCall
  /\ UNCHANGED <<parts, msgs, typing, clock, directRet>>

\* step 3: ConversationParticipant.insertMany and return
CDInsert(p) ==
  /\ pc[p] = "cd_created"
  /\ parts' = InsertMany(parts, DirectParticipants(loc[p].ret, loc[p].a, loc[p].b))
  /\ pc' = [pc EXCEPT ![p] = "idle"]
  /\ loc' = [loc EXCEPT ![p].status = "ok"]
  /\ directRet' = directRet \cup {<<loc[p].a, loc[p].b, loc[p].ret>>}
  /\ last' = NoCall /\ prev' = NoCall
  /\ UNCHANGED <<convs, msgs, typing, clock>>

\* the whole method, uninterrupted
CreateDirectSeq(a, b) ==
  LET found == FindDirect(convs, SortPair(a, b))
      conv == DirectConv(a, SortPair(a, b))
      new == Len(convs) + 1
      call == [op |-> "createDirect", args |-> <<a, b>>, ok |-> FALSE, ret |-> 0,
               pre |-> 0]
  IN /\ prev' = NoCall
     /\ IF a = b
        THEN /\ last' = call
             /\ UNCHANGED <<convs, parts, directRet>>
        ELSE IF found # 0
        THEN /\ parts' = ReactivateParticipants(parts, found, {a, b})
             /\ last' = [call EXCEPT !.ok = TRUE, !.ret = found]
             /\ directRet' = directRet \cup {<<a, b, found>>}
             /\ UNCHANGED convs
        ELSE IF UniqueDirectViolation(convs, conv)
        THEN /\ last' = call
             /\ UNCHANGED <<convs, parts, directRet>>
        ELSE /\ Len(convs) < MaxConvs
             /\ convs' = Append(convs, conv)
             /\ parts' = InsertMany(parts, DirectParticipants(new, a, b))
             /\ last' = [call EXCEPT !.ok = TRUE, !.ret = new]
             /\ directRet' = directRet \cup {<<a, b, new>>}
     /\ UNCHANGED <<msgs, typing, clock, pc, loc>>

\* ---------------------------------------------------------------- sendMessage
\* Conversation.findOne({_id, participants: userId, isActive: true})
GetConversation(cs, c, u) ==
  /\ c \in DOMAIN cs
  /\ u \in Range(cs[c].participants)
  /\ cs[c].isActive

\* content?.trim()
Trim(content) == IF content = " " THEN "" ELSE content

\* findByIdAndUpdate(conv, {lastMessage, lastMessageAt, lastMessagePreview,
\*                          $inc: {'metadata.totalMessages': n}})
UpdateLastMessage(cs, c, m, n) ==
  [cs EXCEPT ![c].lastMessage = m, ![c].totalMessages = @ + n]

\* mutant of IncUnread: the filter lacks userId: {$ne: sender}
IncUnreadAll(ps, c, sender) ==
  [i \in DOMAIN ps |->
     IF ps[i].conversationId = c /\ ps[i].isActive
     THEN [ps[i] EXCEPT !.unreadCount = @ + 1] ELSE ps[i]]

\* updateMany({conversationId, userId: {$ne: sender}, isActive: true},
\*            {$inc: {unreadCount: 1}})
IncUnread(ps, c, sender) ==
  [i \in DOMAIN ps |->
     IF ps[i].conversationId = c /\ ps[i].userId # sender /\ ps[i].isActive
     THEN [ps[i] EXCEPT !.unreadCount = @ + 1] ELSE ps[i]]

\* redis.del(chat:typing:<conversation>:<user>)
ClearTyping(ty, c, u) == {k \in ty : ~(k.conversationId = c /\ k.userId = u)}

UnreadCounts == [i \in DOMAIN parts |-> parts[i].unreadCount]

\* generateMessagePreview for a text or system message: content.substring(0, 100)
\* (the contents of the model are shorter)
GenerateMessagePreview(content) == content

\* the lastMessagePreview field of the two last-message updates
SetPreview(cs, c, content) ==
  [cs EXCEPT ![c].lastMessagePreview = GenerateMessagePreview(content)]

\* a command sent to the ephemeral store: it yields its value when the store
\* is available; getClient() throws or the command is rejected when it is not
Redis(up, value) ==
  IF up THEN [raised |-> FALSE, value |-> value]
  ELSE [raised |-> TRUE, value |-> "unavailable"]

\* mutant of Swallow: the error of the store is passed on to the caller
Rethrow(r, fallback) == r

\* try { ... } catch (error) { logger.warn(...) }: the error is logged, the
\* method returns normally (with its fallback value where it has one)
Swallow(r, fallback) ==
  IF r.raised THEN [raised |-> FALSE, value |-> fallback] ELSE r

\* the whole method, uninterrupted, for a text message with attachments atts
\* in reply to message replyTo (0: options.replyTo is absent); up tells
\* whether the ephemeral store answers the final clearTyping
SendMessageOpts(c, sender, content, atts, replyTo, up) ==
  LET call == [op |-> "sendMessage",
               args |-> IF up THEN <<c, sender>> ELSE <<c, sender, "down">>,
               ok |-> FALSE, ret |-> 0, pre |-> UnreadCounts]
      new == Len(msgs) + 1
      doc == [NewMessage(c, sender, "text", Trim(content), clock)
                EXCEPT !.attachments = atts, !.replyTo = replyTo]
      cleared == Swallow(Redis(up, ClearTyping(typing, c, sender)), typing)
  IN /\ prev' = NoCall
     /\ IF ~GetConversation(convs, c, sender)
        THEN /\ last' = [call EXCEPT !.ret = "NOT_PARTICIPANT"]
             /\ UNCHANGED <<convs, parts, msgs, typing>>
        ELSE IF Trim(content) = "" /\ atts = <<>>
        THEN /\ last' = [call EXCEPT !.ret = "EMPTY_MESSAGE"]
             /\ UNCHANGED <<convs, parts, msgs, typing>>
        ELSE /\ Len(msgs) < MaxMsgs
             /\ msgs' = Append(msgs, doc)
             /\ convs' = SetPreview(UpdateLastMessage(convs, c, new, 1), c, content)
             /\ parts' = IncUnread(parts, c, sender)
             /\ typing' = IF cleared.raised THEN typing ELSE cleared.value
             /\ last' = IF cleared.raised THEN [call EXCEPT !.ret = "REDIS"]
                        ELSE [call EXCEPT !.ok = TRUE, !.ret = new]
     /\ UNCHANGED <<clock, pc, loc, directRet>>

\* the same for a message that replies to none
SendMessageUp(c, sender, content, atts, up) ==
  SendMessageOpts(c, sender, content, atts, 0, up)

\* the same while the ephemeral store is available
SendMessageWith(c, sender, content, atts) == SendMessageUp(c, sender, content, atts, TRUE)

\* the whole method, uninterrupted (text message without attachments)
SendMessageSeq(c, sender, content) == SendMessageWith(c, sender, content, <<>>)

\* sendMessage step 1: getConversation and the validation of the content
SMCheck(p, c, u, content) ==
  /\ pc[p] = "idle"
  /\ IF ~GetConversation(convs, c, u) \/ Trim(content) = ""
     THEN /\ pc' = pc
          /\ loc' = [loc EXCEPT ![p] = Idle]
     ELSE /\ pc' = [pc EXCEPT ![p] = "sm_checked"]
          /\ loc' = [loc EXCEPT ![p] = [op |-> "sendMessage", c |-> c, u |-> u,
                                        content |-> content, m |-> 0]]
  /\ last' = NoCall /\ prev' = NoCall
  /\ UNCHANGED <<convs, parts, msgs, typing, clock, directRet>>

\* sendMessage step 2: Message.create
SMCreate(p) ==
  /\ pc[p] = "sm_checked"
  /\ Len(msgs) < MaxMsgs
  /\ msgs' = Append(msgs, NewMessage(loc[p].c, loc[p].u, "text",
                                     Trim(loc[p].content), clock))
  /\ loc' = [loc EXCEPT ![p].m = Len(msgs) + 1]
  /\ pc' = [pc EXCEPT ![p] = "sm_created"]
  /\ last' = NoCall /\ prev' = NoCall
  /\ UNCHANGED <<convs, parts, typing, clock, directRet>>

\* sendMessage step 3: Conversation.findByIdAndUpdate with the created message
SMUpdate(p) ==
  /\ pc[p] = "sm_created"
  /\ convs' = SetPreview(UpdateLastMessage(convs, loc[p].c, loc[p].m, 1),
                         loc[p].c, loc[p].content)
  /\ pc' = [pc EXCEPT ![p] = "sm_updated"]
  /\ last' = NoCall /\ prev' = NoCall
  /\ UNCHANGED <<parts, msgs, typing, clock, loc, directRet>>

\* sendMessage step 4: ConversationParticipant.updateMany, $inc unreadCount
SMUnread(p) ==
  /\ pc[p] = "sm_updated"
  /\ parts' = IncUnread(parts, loc[p].c, loc[p].u)
  /\ pc' = [pc EXCEPT ![p] = "sm_counted"]
  /\ last' = NoCall /\ prev' = NoCall
  /\ UNCHANGED <<convs, msgs, typing, clock, loc, directRet>>

\* sendMessage step 5: clearTyping, and the message is returned
SMClear(p) ==
  /\ pc[p] = "sm_counted"
  /\ typing' = ClearTyping(typing, loc[p].c, loc[p].u)
  /\ pc' = [pc EXCEPT ![p] = "idle"]
  /\ loc' = [loc EXCEPT ![p] = Idle]
  /\ last' = NoCall /\ prev' = NoCall
  /\ UNCHANGED <<convs, parts, msgs, clock, directRet>>

\* time passes: later calls to new Date() and Date.now() see a later instant
Tick ==
  /\ clock < MaxClock
  /\ clock' = clock + 1
  /\ UNCHANGED <<convs, parts, msgs, typing, pc, loc, last, prev, directRet>>

\* ---------------------------------------------------------------- typing indicators
\* the key chat:typing:<conversation>:<user> with the instant Redis drops it
TypingKey(c, u, now) == [conversationId |-> c, userId |-> u, expiresAt |-> now + TypingTTL]

\* mutant of SetTyping: a key that is present keeps its first expiry
SetTypingKeepExpiry(ty, c, u, now) ==
  IF \E k \in ty : k.conversationId = c /\ k.userId = u /\ now < k.expiresAt
  THEN ty
  ELSE ClearTyping(ty, c, u) \cup {TypingKey(c, u, now)}

\* redis.setex(key, TTL.TYPING, ...): the key is written anew with a full lifetime
SetTyping(ty, c, u, now) == ClearTyping(ty, c, u) \cup {TypingKey(c, u, now)}

\* redis.keys(chat:typing:<conversation>:*) lists the keys that have not expired;
\* the user is the last segment of each key (ids are hexadecimal, without ':')
GetTypingUsers(ty, c, now) ==
  {k.userId : k \in {x \in ty : x.conversationId = c /\ now < x.expiresAt}}

\* setTyping, with the call and its instant recorded
SetTypingSeq(c, u) ==
  /\ typing' = SetTyping(typing, c, u, clock)
  /\ last' = [op |-> "setTyping", args |-> <<c, u>>, ok |-> TRUE, ret |-> 0,
              pre |-> clock]
  /\ prev' = IF last.op = "setTyping" /\ last.args = <<c, u>> THEN last ELSE NoCall
  /\ UNCHANGED <<convs, parts, msgs, clock, pc, loc, directRet>>

\* clearTyping
ClearTypingSeq(c, u) ==
  /\ typing' = ClearTyping(typing, c, u)
  /\ last' = [op |-> "clearTyping", args |-> <<c, u>>, ok |-> TRUE, ret |-> 0,
              pre |-> clock]
  /\ prev' = NoCall
  /\ UNCHANGED <<convs, parts, msgs, clock, pc, loc, directRet>>

\* a second passes in the typing scenario
TypingTick ==
  /\ clock < MaxTypingClock
  /\ clock' = clock + 1
  /\ UNCHANGED <<convs, parts, msgs, typing, pc, loc, last, prev, directRet>>

\* ---------------------------------------------------------------- reactions
Reaction(e, u) == [emoji |-> e, userId |-> u]

\* reactions.findIndex(r => r.emoji === emoji && r.userId.equals(user)), from 1
FindIndex(rs, e, u) ==
  LET hits == {i \in DOMAIN rs : rs[i] = Reaction(e, u)}
  IN IF hits = {} THEN 0 ELSE Min(hits)

\* reactions.splice(index, 1)
Splice(rs, idx) == SeqFilterIdx(rs, DOMAIN rs \ {idx}, 1)

\* $pull: {reactions: {emoji, userId}}
Pull(rs, e, u) == SeqFilterIdx(rs, {i \in DOMAIN rs : rs[i] # Reaction(e, u)}, 1)

\* what save() will write for a document loaded as rs: nothing, a $push of
\* the new entry, or a $set of the whole spliced array
SavePlan(op, rs, e, u) ==
  IF FindIndex(rs, e, u) = 0 THEN "push"
  ELSE IF op = "addReaction" THEN "none" ELSE "splice"

\* document.save() after push: {$push: {reactions}, $inc: {__v: 1}}, no
\* version condition
SavePush(ms, m, e, u) ==
  [ms EXCEPT ![m].reactions = Append(@, Reaction(e, u)), ![m].version = @ + 1]

\* document.save() after splice: {$set: {reactions}, $inc: {__v: 1}} where
\* __v is the loaded version; no match is a VersionError
SaveSplice(ms, m, doc, version) ==
  IF ms[m].version = version
  THEN [ms EXCEPT ![m].reactions = doc, ![m].version = @ + 1]
  ELSE ms

\* flags on the calls in flight on message m: a call of another connection
\* wrote the message between their load and their save
Interfere(lc, m, except) ==
  [q \in Procs |->
     IF pc[q] = "r_loaded" /\ lc[q].m = m /\ q \notin except
     THEN [lc[q] EXCEPT !.interfered = TRUE] ELSE lc[q]]

SameReactionCall(x, y) ==
  /\ x.op = y.op /\ x.m = y.m /\ x.u = y.u /\ x.e = y.e

\* step 1 of addReaction / toggleReaction: Message.findById
RLoad(p, op, m, u, e) ==
  /\ pc[p] = "idle"
  /\ m \in DOMAIN msgs
  /\ LET plan == SavePlan(op, msgs[m].reactions, e, u)
         me == [op |-> op, m |-> m, u |-> u, e |-> e, doc |-> msgs[m].reactions,
                version |-> msgs[m].version, status |-> "running",
                added |-> FALSE, raced |-> FALSE, interfered |-> FALSE]
         racers == {q \in Procs \ {p} :
                      pc[q] = "r_loaded" /\ SameReactionCall(loc[q], me)}
     IN IF plan = "none"
        THEN /\ pc' = pc
             /\ loc' = [loc EXCEPT ![p] = [me EXCEPT !.status = "ok"]]
        ELSE /\ pc' = [pc EXCEPT ![p] = "r_loaded"]
             /\ loc' = [q \in Procs |->
                          IF q = p THEN [me EXCEPT !.raced = (racers # {})]
                          ELSE IF q \in racers THEN [loc[q] EXCEPT !.raced = TRUE]
                          ELSE loc[q]]
  /\ last' = NoCall /\ prev' = NoCall
  /\ UNCHANGED <<convs, parts, msgs, typing, clock, directRet>>

\* step 2: message.save()
RSave(p) ==
  /\ pc[p] = "r_loaded"
  /\ LET l == loc[p]
         idx == FindIndex(l.doc, l.e, l.u)
         racers == {q \in Procs : pc[q] = "r_loaded" /\ SameReactionCall(loc[q], l)}
         others == Interfere(loc, l.m, racers)
     IN IF idx = 0
        THEN /\ Len(msgs[l.m].reactions) < MaxReactions
             /\ msgs[l.m].version < MaxVersion
             /\ msgs' = SavePush(msgs, l.m, l.e, l.u)
             /\ loc' = [others EXCEPT ![p].status = "ok", ![p].added = TRUE]
        ELSE /\ msgs[l.m].version < MaxVersion
             /\ msgs' = SaveSplice(msgs, l.m, Splice(l.doc, idx), l.version)
             /\ loc' = [others EXCEPT
                          ![p].status = IF msgs[l.m].version = l.version
                                        THEN "ok" ELSE "error"]
  /\ pc' = [pc EXCEPT ![p] = "idle"]
  /\ last' = NoCall /\ prev' = NoCall
  /\ UNCHANGED <<convs, parts, typing, clock, directRet>>

ReactionSet(m) == Range(msgs[m].reactions)

\* addReaction, uninterrupted
AddReactionSeq(m, u, e) ==
  /\ m \in DOMAIN msgs
  /\ IF SavePlan("addReaction", msgs[m].reactions, e, u) = "push"
     THEN /\ Len(msgs[m].reactions) < MaxReactions
          /\ msgs[m].version < MaxVersion
          /\ msgs' = SavePush(msgs, m, e, u)
          /\ loc' = Interfere(loc, m, {})
     ELSE UNCHANGED <<msgs, loc>>
  /\ last' = NoCall /\ prev' = NoCall
  /\ UNCHANGED <<convs, parts, typing, clock, pc, directRet>>

\* removeReaction: one findByIdAndUpdate with $pull
RemoveReaction(m, u, e) ==
  /\ m \in DOMAIN msgs
  /\ msgs' = [msgs EXCEPT ![m].reactions = Pull(@, e, u)]
  /\ loc' = IF msgs'[m] = msgs[m] THEN loc ELSE Interfere(loc, m, {})
  /\ last' = NoCall /\ prev' = NoCall
  /\ UNCHANGED <<convs, parts, typing, clock, pc, directRet>>

\* toggleReaction, uninterrupted; returns added
ToggleReactionSeq(m, u, e) ==
  /\ m \in DOMAIN msgs
  /\ msgs[m].version < MaxVersion
  /\ LET idx == FindIndex(msgs[m].reactions, e, u)
     IN /\ IF idx = 0
           THEN /\ Len(msgs[m].reactions) < MaxReactions
                /\ msgs' = SavePush(msgs, m, e, u)
           ELSE msgs' = SaveSplice(msgs, m, Splice(msgs[m].reactions, idx),
                                   msgs[m].version)
        /\ last' = [op |-> "toggleReaction", args |-> <<m, u, e>>, ok |-> TRUE,
                    ret |-> (idx = 0), pre |-> ReactionSet(m)]
  /\ loc' = Interfere(loc, m, {})
  /\ prev' = IF last.op = "toggleReaction" THEN last ELSE NoCall
  /\ UNCHANGED <<convs, parts, typing, clock, pc, directRet>>

\* ---------------------------------------------------------------- system messages and groups
\* sendSystemMessage: Message.create and the last-message update, no unread
\* increment and no total count
SystemMessage(ms, c, by, now) == Append(ms, NewMessage(c, by, "system", "sys", now))

\* participantIds.filter(id => id !== creatorId)
RECURSIVE WithoutCreator(_, _)
WithoutCreator(ids, creator) ==
  IF ids = <<>> THEN <<>>
  ELSE IF Head(ids) = creator THEN WithoutCreator(Tail(ids), creator)
       ELSE <<Head(ids)>> \o WithoutCreator(Tail(ids), creator)

GroupParticipants(c, creator, all) ==
  [i \in DOMAIN all |->
     Participant(c, all[i], IF all[i] = creator THEN "admin" ELSE "member")]

\* the whole method, uninterrupted
CreateGroupSeq(creator, name, ids) ==
  LET all == <<creator>> \o WithoutCreator(ids, creator)
      new == Len(convs) + 1
      recs == GroupParticipants(new, creator, all)
      inserted == InsertMany(parts, recs)
      call == [op |-> "createGroup", args |-> <<creator, name, ids>>, ok |-> FALSE,
               ret |-> 0, pre |-> [convs |-> Len(convs), parts |-> Len(parts)]]
  IN /\ prev' = NoCall
     /\ IF Trim(name) = "" \/ Len(ids) < 2
        THEN /\ last' = call
             /\ UNCHANGED <<convs, parts, msgs>>
        ELSE /\ Len(convs) < MaxConvs
             /\ parts' = inserted
             /\ IF Len(inserted) < Len(parts) + Len(recs)
                THEN \* insertMany rejected with a duplicate key
                     /\ convs' = Append(convs, GroupConv(creator, all))
                     /\ last' = call
                     /\ UNCHANGED msgs
                ELSE /\ Len(msgs) < MaxMsgs
                     /\ msgs' = SystemMessage(msgs, new, creator, clock)
                     /\ convs' = SetPreview(
                                    UpdateLastMessage(Append(convs, GroupConv(creator, all)),
                                                      new, Len(msgs) + 1, 0),
                                    new, "sys")
                     /\ last' = [call EXCEPT !.ok = TRUE, !.ret = new]
     /\ UNCHANGED <<typing, clock, pc, loc, directRet>>

\* ---------------------------------------------------------------- read and delivery receipts
Receipt(u, now) == [userId |-> u, at |-> now]

ReceiptUsers(rs) == {rs[i].userId : i \in DOMAIN rs}

\* $addToSet of a sub-document: added unless an equal element is present
AddToSet(rs, x) == IF x \in Range(rs) THEN rs ELSE Append(rs, x)

\* findOneAndUpdate({conversationId, userId}, {$set: {unreadCount: 0, ...}})
ResetUnread(ps, c, u, r) ==
  LET hits == {i \in DOMAIN ps : ps[i].conversationId = c /\ ps[i].userId = u}
  IN [i \in DOMAIN ps |->
        IF hits # {} /\ i = Min(hits)
        THEN [ps[i] EXCEPT !.unreadCount = 0,
                           !.lastReadMessageId = IF r # 0 THEN r ELSE @]
        ELSE ps[i]]

\* mutant of FindUnread: the filter lacks 'readBy.userId': {$ne: user}
FindUnreadAgain(ms, c, u, r) ==
  {m \in DOMAIN ms :
     /\ ms[m].conversationId = c
     /\ ms[m].senderId # u
     /\ (r \in DOMAIN ms => ms[m].createdAt <= ms[r].createdAt)}

\* mutant of FindUnread: the filter lacks the createdAt bound
FindUnreadNoBound(ms, c, u, r) ==
  {m \in DOMAIN ms :
     /\ ms[m].conversationId = c
     /\ ms[m].senderId # u
     /\ u \notin ReceiptUsers(ms[m].readBy)}

\* Message.find({conversationId, senderId: {$ne: user},
\*               createdAt: {$lte: target.createdAt} when the target exists,
\*               'readBy.userId': {$ne: user}})
FindUnread(ms, c, u, r) ==
  {m \in DOMAIN ms :
     /\ ms[m].conversationId = c
     /\ ms[m].senderId # u
     /\ (r \in DOMAIN ms => ms[m].createdAt <= ms[r].createdAt)
     /\ u \notin ReceiptUsers(ms[m].readBy)}

\* Message.updateMany({_id: {$in: ids}}, {$addToSet: {readBy: {userId, readAt}}})
AddReadBy(ms, ids, u, now) ==
  [m \in DOMAIN ms |->
     IF m \in ids THEN [ms[m] EXCEPT !.readBy = AddToSet(@, Receipt(u, now))]
     ELSE ms[m]]

\* Message.find({conversationId, senderId: {$ne: user},
\*               'deliveredTo.userId': {$ne: user}})
FindUndelivered(ms, c, u) ==
  {m \in DOMAIN ms :
     /\ ms[m].conversationId = c
     /\ ms[m].senderId # u
     /\ u \notin ReceiptUsers(ms[m].deliveredTo)}

\* Message.updateMany({_id: {$in: ids}}, {$addToSet: {deliveredTo: {...}}})
AddDeliveredTo(ms, ids, u, now) ==
  [m \in DOMAIN ms |->
     IF m \in ids THEN [ms[m] EXCEPT !.deliveredTo = AddToSet(@, Receipt(u, now))]
     ELSE ms[m]]

ReadByUsers == [m \in DOMAIN msgs |-> ReceiptUsers(msgs[m].readBy)]

\* markAsRead step 1: the participant record
MRReset(p, c, u, r) ==
  /\ pc[p] = "idle"
  /\ parts' = ResetUnread(parts, c, u, r)
  /\ pc' = [pc EXCEPT ![p] = "mr_reset"]
  /\ loc' = [loc EXCEPT ![p] = [op |-> "markAsRead", c |-> c, u |-> u, r |-> r,
                                ids |-> {}, status |-> "running"]]
  /\ last' = NoCall /\ prev' = NoCall
  /\ UNCHANGED <<convs, msgs, typing, clock, directRet>>

\* markAsRead step 2: the reference message and the unread messages (the
\* reference's createdAt never changes, so the two reads are one step)
MRFind(p) ==
  /\ pc[p] = "mr_reset"
  /\ LET ids == FindUnread(msgs, loc[p].c, loc[p].u, loc[p].r)
     IN IF ids = {}
        THEN /\ pc' = [pc EXCEPT ![p] = "idle"]
             /\ loc' = [loc EXCEPT ![p] = Idle]
        ELSE /\ pc' = [pc EXCEPT ![p] = "mr_found"]
             /\ loc' = [loc EXCEPT ![p].ids = ids]
  /\ last' = NoCall /\ prev' = NoCall
  /\ UNCHANGED <<convs, parts, msgs, typing, clock, directRet>>

\* markAsRead step 3: the receipts
MRUpdate(p) ==
  /\ pc[p] = "mr_found"
  /\ msgs' = AddReadBy(msgs, loc[p].ids, loc[p].u, clock)
  /\ pc' = [pc EXCEPT ![p] = "idle"]
  /\ loc' = [loc EXCEPT ![p] = Idle]
  /\ last' = NoCall /\ prev' = NoCall
  /\ UNCHANGED <<convs, parts, typing, clock, directRet>>

\* markAsRead, uninterrupted; returns the ids found unread
MarkAsReadSeq(c, u, r) ==
  LET ids == FindUnread(msgs, c, u, r)
  IN /\ parts' = ResetUnread(parts, c, u, r)
     /\ msgs' = AddReadBy(msgs, ids, u, clock)
     /\ last' = [op |-> "markAsRead", args |-> <<c, u, r>>, ok |-> TRUE,
                 ret |-> ids, pre |-> ReadByUsers]
     /\ prev' = IF last.op = "markAsRead" THEN last ELSE NoCall
     /\ UNCHANGED <<convs, typing, clock, pc, loc, directRet>>

\* markConversationAsDelivered step 1: the undelivered messages
MDFind(p, c, u) ==
  /\ pc[p] = "idle"
  /\ LET ids == FindUndelivered(msgs, c, u)
         me == [op |-> "markConversationAsDelivered", c |-> c, u |-> u,
                ids |-> ids, status |-> "running"]
     IN IF ids = {}
        THEN /\ pc' = pc
             /\ loc' = [loc EXCEPT ![p] = Idle]
        ELSE /\ pc' = [pc EXCEPT ![p] = "md_found"]
             /\ loc' = [loc EXCEPT ![p] = me]
  /\ last' = NoCall /\ prev' = NoCall
  /\ UNCHANGED <<convs, parts, msgs, typing, clock, directRet>>

\* markConversationAsDelivered step 2: the receipts
MDUpdate(p) ==
  /\ pc[p] = "md_found"
  /\ msgs' = AddDeliveredTo(msgs, loc[p].ids, loc[p].u, clock)
  /\ pc' = [pc EXCEPT ![p] = "idle"]
  /\ loc' = [loc EXCEPT ![p] = Idle]
  /\ last' = NoCall /\ prev' = NoCall
  /\ UNCHANGED <<convs, parts, typing, clock, directRet>>

\* mutant of DeliverUpdate: the filter lacks 'deliveredTo.userId': {$ne: user}
DeliverUpdateNoFilter(ms, ids, u, now) ==
  AddDeliveredTo(ms, ids \cap DOMAIN ms, u, now)

\* Message.updateMany({_id: {$in: ids}, 'deliveredTo.userId': {$ne: user}},
\*                    {$addToSet: {deliveredTo: {userId, deliveredAt: now}}})
DeliverUpdate(ms, ids, u, now) ==
  AddDeliveredTo(ms, {m \in ids \cap DOMAIN ms :
                        u \notin ReceiptUsers(ms[m].deliveredTo)}, u, now)

\* markAsDelivered: one updateMany whose filter holds the absence test
MarkAsDelivered(ids, u) ==
  /\ ids \subseteq DOMAIN msgs
  /\ msgs' = DeliverUpdate(msgs, ids, u, clock)
  /\ last' = NoCall /\ prev' = NoCall
  /\ UNCHANGED <<convs, parts, typing, clock, pc, loc, directRet>>

DeliveredLists == [m \in DOMAIN msgs |-> msgs[m].deliveredTo]

\* markAsDelivered on any list of ids, existing or not, with the call recorded
MarkAsDeliveredSeq(ids, u) ==
  /\ msgs' = DeliverUpdate(msgs, ids, u, clock)
  /\ last' = [op |-> "markAsDelivered", args |-> <<ids, u>>, ok |-> TRUE,
              ret |-> 0, pre |-> DeliveredLists]
  /\ prev' = IF last.op = "markAsDelivered" THEN last ELSE NoCall
  /\ UNCHANGED <<convs, parts, typing, clock, pc, loc, directRet>>

\* ---------------------------------------------------------------- addParticipants, removeParticipant, leaveConversation
\* the checks shared by addParticipants and removeParticipant, in the code's
\* order: access, group only, admin only
AdminError(cs, c, admin) ==
  IF ~GetConversation(cs, c, admin) THEN "CONVERSATION_NOT_FOUND"
  ELSE IF cs[c].type = "direct" THEN "DIRECT_CONVERSATION"
  ELSE IF admin \notin Range(cs[c].admins) THEN "NOT_ADMIN"
  ELSE "none"

\* mutant of RemoveError: the creator test is missing
RemoveErrorNoCreator(cs, c, admin, u) == AdminError(cs, c, admin)

\* the checks of removeParticipant
RemoveError(cs, c, admin, u) ==
  IF AdminError(cs, c, admin) # "none" THEN AdminError(cs, c, admin)
  ELSE IF cs[c].createdBy = u THEN "CANNOT_REMOVE_ADMIN"
  ELSE "none"

\* the checks of leaveConversation
LeaveError(cs, c, u) ==
  IF ~GetConversation(cs, c, u) THEN "CONVERSATION_NOT_FOUND"
  ELSE IF cs[c].type = "direct" THEN "CANNOT_LEAVE_DIRECT"
  ELSE "none"

\* ConversationParticipant.findOneAndUpdate({conversationId, userId},
\*                                          {isActive: false, leftAt, removedBy})
Deactivate(ps, c, u, now) ==
  LET hits == {i \in DOMAIN ps : ps[i].conversationId = c /\ ps[i].userId = u}
  IN [i \in DOMAIN ps |->
        IF hits # {} /\ i = Min(hits)
        THEN [ps[i] EXCEPT !.isActive = FALSE, !.leftAt = now]
        ELSE ps[i]]

\* mutant of PullParticipant: the $pull names admins only
PullAdminOnly(cs, c, u) ==
  [cs EXCEPT ![c].admins = SeqFilterIdx(@, {i \in DOMAIN @ : @[i] # u}, 1)]

\* Conversation.findByIdAndUpdate(c, {$pull: {participants: u, admins: u}})
PullParticipant(cs, c, u) ==
  [cs EXCEPT ![c].participants = SeqFilterIdx(@, {i \in DOMAIN @ : @[i] # u}, 1),
             ![c].admins = SeqFilterIdx(@, {i \in DOMAIN @ : @[i] # u}, 1)]

\* sendSystemMessage on the stored conversation: the message and the
\* last-message fields
SendSystemMessage(cs, ms, c, by, now) ==
  [msgs |-> SystemMessage(ms, c, by, now),
   convs |-> SetPreview(UpdateLastMessage(cs, c, Len(ms) + 1, 0), c, "sys")]

\* existing.isActive = true; existing.leftAt = undefined; existing.save()
\* (joinedAt and joinedBy are not modelled)
Reactivate(ps, i) == [ps EXCEPT ![i].isActive = TRUE, ![i].leftAt = -1]

RECURSIVE AddEach(_, _, _, _)
\* the loop of addParticipants over userIds: an active record is skipped, an
\* inactive one reactivated, a missing one created; new collects the users
\* added
AddEach(ps, c, ids, new) ==
  IF ids = <<>> THEN [parts |-> ps, new |-> new]
  ELSE LET u == Head(ids)
           hits == {i \in DOMAIN ps : ps[i].conversationId = c /\ ps[i].userId = u}
       IN IF hits # {} /\ ps[Min(hits)].isActive
          THEN AddEach(ps, c, Tail(ids), new)
          ELSE IF hits # {}
          THEN AddEach(Reactivate(ps, Min(hits)), c, Tail(ids), Append(new, u))
          ELSE AddEach(Append(ps, Participant(c, u, "member")), c, Tail(ids),
                       Append(new, u))

RECURSIVE AddEachToSet(_, _)
\* $addToSet: {participants: {$each: new}}
AddEachToSet(s, new) ==
  IF new = <<>> THEN s ELSE AddEachToSet(AddToSet(s, Head(new)), Tail(new))

MemberState == [convs |-> convs, parts |-> parts, msgs |-> msgs]

\* addParticipants, uninterrupted
AddParticipantsSeq(c, admin, ids) ==
  LET err == AdminError(convs, c, admin)
      call == [op |-> "addParticipants", args |-> <<c, admin, ids>>, ok |-> FALSE,
               ret |-> err, pre |-> MemberState]
      added == AddEach(parts, c, ids, <<>>)
      sys == SendSystemMessage(
               [convs EXCEPT ![c].participants = AddEachToSet(@, added.new)],
               msgs, c, admin, clock)
  IN /\ IF err # "none"
        THEN /\ last' = call
             /\ UNCHANGED <<convs, parts, msgs>>
        ELSE /\ parts' = added.parts
             /\ last' = [call EXCEPT !.ok = TRUE]
             /\ IF added.new = <<>> THEN UNCHANGED <<convs, msgs>>
                ELSE /\ Len(msgs) < MemberMsgs
                     /\ convs' = sys.convs
                     /\ msgs' = sys.msgs
     /\ prev' = NoCall
     /\ UNCHANGED <<typing, clock, pc, loc, directRet>>

\* removeParticipant, uninterrupted
RemoveParticipantSeq(c, admin, u) ==
  LET err == RemoveError(convs, c, admin, u)
      call == [op |-> "removeParticipant", args |-> <<c, admin, u>>, ok |-> FALSE,
               ret |-> err, pre |-> MemberState]
      sys == SendSystemMessage(PullParticipant(convs, c, u), msgs, c, admin, clock)
  IN /\ IF err # "none"
        THEN /\ last' = call
             /\ UNCHANGED <<convs, parts, msgs>>
        ELSE /\ Len(msgs) < MemberMsgs
             /\ parts' = Deactivate(parts, c, u, clock)
             /\ convs' = sys.convs
             /\ msgs' = sys.msgs
             /\ last' = [call EXCEPT !.ok = TRUE]
     /\ prev' = NoCall
     /\ UNCHANGED <<typing, clock, pc, loc, directRet>>

\* leaveConversation, uninterrupted
LeaveConversationSeq(c, u) ==
  LET err == LeaveError(convs, c, u)
      call == [op |-> "leaveConversation", args |-> <<c, u>>, ok |-> FALSE,
               ret |-> err, pre |-> MemberState]
      sys == SendSystemMessage(PullParticipant(convs, c, u), msgs, c, u, clock)
  IN /\ IF err # "none"
        THEN /\ last' = call
             /\ UNCHANGED <<convs, parts, msgs>>
        ELSE /\ Len(msgs) < MemberMsgs
             /\ parts' = Deactivate(parts, c, u, clock)
             /\ convs' = sys.convs
             /\ msgs' = sys.msgs
             /\ last' = [call EXCEPT !.ok = TRUE]
     /\ prev' = NoCall
     /\ UNCHANGED <<typing, clock, pc, loc, directRet>>

\* removeParticipant step 1: getConversation and the checks
RPCheck(p, c, admin, u) ==
  /\ pc[p] = "idle"
  /\ IF RemoveError(convs, c, admin, u) # "none"
     THEN /\ pc' = pc
          /\ loc' = [loc EXCEPT ![p] = Idle]
     ELSE /\ pc' = [pc EXCEPT ![p] = "m_checked"]
          /\ loc' = [loc EXCEPT ![p] = [op |-> "removeParticipant", c |-> c,
                                        by |-> admin, u |-> u]]
  /\ last' = NoCall /\ prev' = NoCall
  /\ UNCHANGED <<convs, parts, msgs, typing, clock, directRet>>

\* leaveConversation step 1: getConversation and the checks
LCCheck(p, c, u) ==
  /\ pc[p] = "idle"
  /\ IF LeaveError(convs, c, u) # "none"
     THEN /\ pc' = pc
          /\ loc' = [loc EXCEPT ![p] = Idle]
     ELSE /\ pc' = [pc EXCEPT ![p] = "m_checked"]
          /\ loc' = [loc EXCEPT ![p] = [op |-> "leaveConversation", c |-> c,
                                        by |-> u, u |-> u]]
  /\ last' = NoCall /\ prev' = NoCall
  /\ UNCHANGED <<convs, parts, msgs, typing, clock, directRet>>

\* step 2 of both: the participant record
MDeactivate(p) ==
  /\ pc[p] = "m_checked"
  /\ parts' = Deactivate(parts, loc[p].c, loc[p].u, clock)
  /\ pc' = [pc EXCEPT ![p] = "m_deactivated"]
  /\ last' = NoCall /\ prev' = NoCall
  /\ UNCHANGED <<convs, msgs, typing, clock, loc, directRet>>

\* step 3 of both: the participants and admins arrays
MPull(p) ==
  /\ pc[p] = "m_deactivated"
  /\ convs' = PullParticipant(convs, loc[p].c, loc[p].u)
  /\ pc' = [pc EXCEPT ![p] = "m_pulled"]
  /\ last' = NoCall /\ prev' = NoCall
  /\ UNCHANGED <<parts, msgs, typing, clock, loc, directRet>>

\* step 4 of both: the system message
MSystem(p) ==
  /\ pc[p] = "m_pulled"
  /\ Len(msgs) < MemberMsgs
  /\ LET sys == SendSystemMessage(convs, msgs, loc[p].c, loc[p].by, clock)
     IN /\ convs' = sys.convs
        /\ msgs' = sys.msgs
  /\ pc' = [pc EXCEPT ![p] = "idle"]
  /\ loc' = [loc EXCEPT ![p] = Idle]
  /\ last' = NoCall /\ prev' = NoCall
  /\ UNCHANGED <<parts, typing, clock, directRet>>

\* the records of user u in conversation c
RecordsOf(ps, c, u) == {i \in DOMAIN ps : ps[i].conversationId = c /\ ps[i].userId = u}

\* where addParticipants goes when an iteration of its loop ends: the next
\* findOne, the $addToSet, or the return when nobody was added
AfterIteration(ids, new) ==
  IF ids # <<>> THEN "ap_loop" ELSE IF new # <<>> THEN "ap_collected" ELSE "idle"

\* addParticipants step 1: getConversation and the checks; the call keeps the
\* users of the list that had no record, and those that had an inactive one
APCheck(p, c, admin, ids) ==
  LET me == [op |-> "addParticipants", c |-> c, by |-> admin, ids |-> ids,
             new |-> <<>>, hit |-> 0, status |-> "running",
             fresh |-> {u \in Range(ids) : RecordsOf(parts, c, u) = {}},
             gone |-> {u \in Range(ids) : \E i \in RecordsOf(parts, c, u) :
                                             ~parts[i].isActive}]
  IN /\ pc[p] = "idle"
     /\ IF AdminError(convs, c, admin) # "none"
        THEN /\ pc' = pc
             /\ loc' = [loc EXCEPT ![p] = Idle]
        ELSE /\ pc' = [pc EXCEPT ![p] = "ap_loop"]
             /\ loc' = [loc EXCEPT ![p] = me]
     /\ last' = NoCall /\ prev' = NoCall
     /\ UNCHANGED <<convs, parts, msgs, typing, clock, directRet>>

\* step 2, once per listed user: ConversationParticipant.findOne; an active
\* record ends the iteration
APFind(p) ==
  /\ pc[p] = "ap_loop"
  /\ LET hits == RecordsOf(parts, loc[p].c, Head(loc[p].ids))
     IN IF hits # {} /\ parts[Min(hits)].isActive
        THEN /\ pc' = [pc EXCEPT ![p] = AfterIteration(Tail(loc[p].ids), loc[p].new)]
             /\ loc' = [loc EXCEPT ![p].ids = Tail(@),
                                   ![p].status = IF pc'[p] = "idle" THEN "ok" ELSE @]
        ELSE /\ pc' = [pc EXCEPT ![p] = "ap_found"]
             /\ loc' = [loc EXCEPT ![p].hit = IF hits # {} THEN Min(hits) ELSE 0]
  /\ last' = NoCall /\ prev' = NoCall
  /\ UNCHANGED <<convs, parts, msgs, typing, clock, directRet>>

\* step 3: existing.save() of the reactivated record, or
\* ConversationParticipant.create, which a duplicate key rejects: the error
\* ends the call
APWrite(p) ==
  LET u == Head(loc[p].ids)
      rec == Participant(loc[p].c, u, "member")
      next == AfterIteration(Tail(loc[p].ids), Append(loc[p].new, u))
  IN /\ pc[p] = "ap_found"
     /\ IF loc[p].hit = 0 /\ UniqueParticipantViolation(parts, rec)
        THEN /\ pc' = [pc EXCEPT ![p] = "idle"]
             /\ loc' = [loc EXCEPT ![p].status = "error"]
             /\ UNCHANGED parts
        ELSE /\ parts' = IF loc[p].hit = 0 THEN Append(parts, rec)
                         ELSE Reactivate(parts, loc[p].hit)
             /\ pc' = [pc EXCEPT ![p] = next]
             /\ loc' = [loc EXCEPT ![p].ids = Tail(@), ![p].new = Append(@, u)]
     /\ last' = NoCall /\ prev' = NoCall
     /\ UNCHANGED <<convs, msgs, typing, clock, directRet>>

\* step 4: $addToSet of the added users on Conversation.participants
APAddToSet(p) ==
  /\ pc[p] = "ap_collected"
  /\ convs' = [convs EXCEPT ![loc[p].c].participants = AddEachToSet(@, loc[p].new)]
  /\ pc' = [pc EXCEPT ![p] = "ap_set"]
  /\ last' = NoCall /\ prev' = NoCall
  /\ UNCHANGED <<parts, msgs, typing, clock, loc, directRet>>

\* step 5: the system message
APSystem(p) ==
  /\ pc[p] = "ap_set"
  /\ Len(msgs) < MemberMsgs
  /\ LET sys == SendSystemMessage(convs, msgs, loc[p].c, loc[p].by, clock)
     IN /\ convs' = sys.convs
        /\ msgs' = sys.msgs
  /\ pc' = [pc EXCEPT ![p] = "idle"]
  /\ loc' = [loc EXCEPT ![p].status = "ok"]
  /\ last' = NoCall /\ prev' = NoCall
  /\ UNCHANGED <<parts, typing, clock, directRet>>

\* ---------------------------------------------------------------- editMessage and deleteMessage
Placeholder == "This message was deleted"

\* mutant of IsSender: the sender test is missing
IsSenderAny(doc, u) == TRUE

\* message.senderId.equals(userObjectId)
IsSender(doc, u) == doc.senderId = u

\* mutant of EditError: the isDeleted test is missing
EditErrorNoTombstone(ms, m, u) ==
  IF m \notin DOMAIN ms THEN "MESSAGE_NOT_FOUND"
  ELSE IF ~IsSender(ms[m], u) THEN "CANNOT_EDIT_OTHERS_MESSAGE"
  ELSE "none"

\* the checks of editMessage on the loaded document, in the code's order
EditError(ms, m, u) ==
  IF m \notin DOMAIN ms THEN "MESSAGE_NOT_FOUND"
  ELSE IF ~IsSender(ms[m], u) THEN "CANNOT_EDIT_OTHERS_MESSAGE"
  ELSE IF ms[m].isDeleted THEN "MESSAGE_NOT_FOUND"
  ELSE "none"

\* the checks of deleteMessage on the loaded document
DeleteError(ms, m, u, forEveryone) ==
  IF m \notin DOMAIN ms THEN "MESSAGE_NOT_FOUND"
  ELSE IF forEveryone /\ ~IsSender(ms[m], u) THEN "CANNOT_DELETE_OTHERS_MESSAGE"
  ELSE "none"

\* message.save() of editMessage on the document loaded as doc: a $set of
\* the paths whose value differs from the loaded one (content, isEdited);
\* no array is touched, so the write carries no version condition
EditSave(ms, m, doc, content) ==
  [ms EXCEPT ![m].content = IF Trim(content) # doc.content THEN Trim(content) ELSE @,
             ![m].isEdited = IF ~doc.isEdited THEN TRUE ELSE @]

\* the filter of the save of deleteMessage matches: replacing a non-empty
\* attachments array makes the write conditional on the loaded __v
DeleteSaveMatches(ms, m, doc) ==
  doc.attachments = <<>> \/ ms[m].version = doc.version

\* message.save() of deleteMessage(forEveryone) on the document loaded as
\* doc: a $set of the modified paths; the pre-save hook marks a document
\* whose content was modified as edited
DeleteSave(ms, m, doc) ==
  IF ~DeleteSaveMatches(ms, m, doc) THEN ms
  ELSE [ms EXCEPT
          ![m].isDeleted = IF ~doc.isDeleted THEN TRUE ELSE @,
          ![m].content = IF doc.content # Placeholder THEN Placeholder ELSE @,
          ![m].attachments = IF doc.attachments # <<>> THEN <<>> ELSE @,
          ![m].isEdited = IF doc.content # Placeholder /\ ~doc.isEdited
                          THEN TRUE ELSE @,
          ![m].version = IF doc.attachments # <<>> THEN @ + 1 ELSE @]

\* mutant of DeleteForSelf: $push instead of $addToSet
DeleteForSelfPush(ms, m, u) == [ms EXCEPT ![m].deletedFor = Append(@, u)]

\* Message.findByIdAndUpdate(m, {$addToSet: {deletedFor: user}})
DeleteForSelf(ms, m, u) == [ms EXCEPT ![m].deletedFor = AddToSet(@, u)]

\* Conversation.findById and, when the message is the last one, the update
\* of lastMessagePreview
EditPreview(cs, ms, m, content) ==
  LET c == ms[m].conversationId
  IN IF c \in DOMAIN cs /\ cs[c].lastMessage = m THEN SetPreview(cs, c, content)
     ELSE cs

\* the query of getMessages without a page cursor (the default limit of 50
\* is above the number of messages of the model)
MessagesQuery(ms, c, u) ==
  {m \in DOMAIN ms : ms[m].conversationId = c /\ u \notin Range(ms[m].deletedFor)}

\* getMessages: the ids returned, none when the access check throws
GetMessages(cs, ms, c, u) ==
  IF GetConversation(cs, c, u) THEN MessagesQuery(ms, c, u) ELSE {}

\* editMessage step 1: Message.findById and the checks
ELoad(p, m, u, content) ==
  /\ pc[p] = "idle"
  /\ IF EditError(msgs, m, u) # "none"
     THEN /\ pc' = pc
          /\ loc' = [loc EXCEPT ![p] = Idle]
     ELSE /\ pc' = [pc EXCEPT ![p] = "e_loaded"]
          /\ loc' = [loc EXCEPT ![p] = [op |-> "editMessage", m |-> m, u |-> u,
                                        content |-> content, doc |-> msgs[m]]]
  /\ last' = NoCall /\ prev' = NoCall
  /\ UNCHANGED <<convs, parts, msgs, typing, clock, directRet>>

\* editMessage step 2: message.save()
ESave(p) ==
  /\ pc[p] = "e_loaded"
  /\ msgs' = EditSave(msgs, loc[p].m, loc[p].doc, loc[p].content)
  /\ pc' = [pc EXCEPT ![p] = "e_saved"]
  /\ last' = NoCall /\ prev' = NoCall
  /\ UNCHANGED <<convs, parts, typing, clock, loc, directRet>>

\* editMessage step 3: the preview of the conversation
EPreview(p) ==
  /\ pc[p] = "e_saved"
  /\ convs' = EditPreview(convs, msgs, loc[p].m, loc[p].content)
  /\ pc' = [pc EXCEPT ![p] = "idle"]
  /\ loc' = [loc EXCEPT ![p] = Idle]
  /\ last' = NoCall /\ prev' = NoCall
  /\ UNCHANGED <<parts, msgs, typing, clock, directRet>>

\* deleteMessage step 1: Message.findById and the checks
DLoad(p, m, u, forEveryone) ==
  /\ pc[p] = "idle"
  /\ IF DeleteError(msgs, m, u, forEveryone) # "none"
     THEN /\ pc' = pc
          /\ loc' = [loc EXCEPT ![p] = Idle]
     ELSE /\ pc' = [pc EXCEPT ![p] = IF forEveryone THEN "d_loaded" ELSE "d_self"]
          /\ loc' = [loc EXCEPT ![p] = [op |-> "deleteMessage", m |-> m, u |-> u,
                                        doc |-> msgs[m]]]
  /\ last' = NoCall /\ prev' = NoCall
  /\ UNCHANGED <<convs, parts, msgs, typing, clock, directRet>>

\* deleteMessage step 2, for everyone: message.save()
DSave(p) ==
  /\ pc[p] = "d_loaded"
  /\ msgs' = DeleteSave(msgs, loc[p].m, loc[p].doc)
  /\ pc' = [pc EXCEPT ![p] = "idle"]
  /\ loc' = [loc EXCEPT ![p] = Idle]
  /\ last' = NoCall /\ prev' = NoCall
  /\ UNCHANGED <<convs, parts, typing, clock, directRet>>

\* deleteMessage step 2, for the caller only: findByIdAndUpdate
DSelf(p) ==
  /\ pc[p] = "d_self"
  /\ msgs' = DeleteForSelf(msgs, loc[p].m, loc[p].u)
  /\ pc' = [pc EXCEPT ![p] = "idle"]
  /\ loc' = [loc EXCEPT ![p] = Idle]
  /\ last' = NoCall /\ prev' = NoCall
  /\ UNCHANGED <<convs, parts, typing, clock, directRet>>

\* editMessage, uninterrupted
EditMessageSeq(m, u, content) ==
  LET err == EditError(msgs, m, u)
      call == [op |-> "editMessage", args |-> <<m, u, content>>, ok |-> FALSE,
               ret |-> err, pre |-> msgs]
  IN /\ IF err # "none"
        THEN /\ last' = call
             /\ UNCHANGED <<msgs, convs>>
        ELSE /\ msgs' = EditSave(msgs, m, msgs[m], content)
             /\ convs' = EditPreview(convs, msgs, m, content)
             /\ last' = [call EXCEPT !.ok = TRUE]
     /\ prev' = NoCall
     /\ UNCHANGED <<parts, typing, clock, pc, loc, directRet>>

\* deleteMessage, uninterrupted
DeleteMessageSeq(m, u, forEveryone) ==
  LET err == DeleteError(msgs, m, u, forEveryone)
      call == [op |-> "deleteMessage", args |-> <<m, u, forEveryone>>, ok |-> FALSE,
               ret |-> err, pre |-> msgs]
  IN /\ IF err # "none"
        THEN /\ last' = call
             /\ UNCHANGED msgs
        ELSE /\ msgs' = IF forEveryone THEN DeleteSave(msgs, m, msgs[m])
                                       ELSE DeleteForSelf(msgs, m, u)
             /\ last' = [call EXCEPT !.ok = TRUE]
     /\ prev' = IF last.op = "deleteMessage" THEN last ELSE NoCall
     /\ UNCHANGED <<convs, parts, typing, clock, pc, loc, directRet>>

\* ---------------------------------------------------------------- pinMessage and unpinMessage
\* message.save() of pinMessage (pin = TRUE) or unpinMessage (pin = FALSE) on
\* the document loaded as doc: isPinned is written only when the assignment
\* changed the loaded value
PinSave(ms, m, doc, pin) ==
  [ms EXCEPT ![m].isPinned = IF doc.isPinned # pin THEN pin ELSE @]

\* Conversation.findByIdAndUpdate: $addToSet of the message id on
\* metadata.pinnedMessages for a pin, $pull for an unpin
PinList(cs, c, m, pin) ==
  [cs EXCEPT ![c].pinnedMessages =
     IF pin THEN AddToSet(@, m)
     ELSE SeqFilterIdx(@, {i \in DOMAIN @ : @[i] # m}, 1)]

\* step 1 of both: Message.findById
PLoad(p, pin, m, u) ==
  /\ pc[p] = "idle"
  /\ IF m \notin DOMAIN msgs
     THEN /\ pc' = pc
          /\ loc' = [loc EXCEPT ![p] = Idle]
     ELSE /\ pc' = [pc EXCEPT ![p] = "p_loaded"]
          /\ loc' = [loc EXCEPT ![p] = [op |-> IF pin THEN "pinMessage"
                                                      ELSE "unpinMessage",
                                        pin |-> pin, m |-> m, u |-> u,
                                        doc |-> msgs[m]]]
  /\ last' = NoCall /\ prev' = NoCall
  /\ UNCHANGED <<convs, parts, msgs, typing, clock, directRet>>

\* step 2: getConversation of the message's conversation for the caller
PAccess(p) ==
  /\ pc[p] = "p_loaded"
  /\ IF GetConversation(convs, loc[p].doc.conversationId, loc[p].u)
     THEN /\ pc' = [pc EXCEPT ![p] = "p_checked"]
          /\ loc' = loc
     ELSE /\ pc' = [pc EXCEPT ![p] = "idle"]
          /\ loc' = [loc EXCEPT ![p] = Idle]
  /\ last' = NoCall /\ prev' = NoCall
  /\ UNCHANGED <<convs, parts, msgs, typing, clock, directRet>>

\* step 3: message.save()
PSave(p) ==
  /\ pc[p] = "p_checked"
  /\ msgs' = PinSave(msgs, loc[p].m, loc[p].doc, loc[p].pin)
  /\ pc' = [pc EXCEPT ![p] = "p_saved"]
  /\ last' = NoCall /\ prev' = NoCall
  /\ UNCHANGED <<convs, parts, typing, clock, loc, directRet>>

\* step 4: the pinned list of the conversation
PList(p) ==
  /\ pc[p] = "p_saved"
  /\ convs' = PinList(convs, loc[p].doc.conversationId, loc[p].m, loc[p].pin)
  /\ pc' = [pc EXCEPT ![p] = "idle"]
  /\ loc' = [loc EXCEPT ![p] = Idle]
  /\ last' = NoCall /\ prev' = NoCall
  /\ UNCHANGED <<parts, msgs, typing, clock, directRet>>

\* ---------------------------------------------------------------- connections and rooms
ConversationRoom(c) == <<"conversation", c>>

UserRoom(u) == <<"user", u>>

\* the open connections that are in a room
InRoom(ss, room) == {s \in Sockets : ss[s].connected /\ room \in ss[s].rooms}

\* io.to(room).emit(event, data): one packet to each connection in the room
IoEmit(ss, room, event, data) ==
  [event |-> event, room |-> room, to |-> InRoom(ss, room), data |-> data]

\* socket.to(room).emit(event, data): the same, except to the emitting connection
SocketEmit(ss, s, room, event, data) ==
  [event |-> event, room |-> room, to |-> InRoom(ss, room) \ {s}, data |-> data]

\* the acknowledgment callback of a handler, with the state the handler started in
Ack(event, s, args, success) ==
  [event |-> event, socket |-> s, args |-> args, success |-> success,
   pre |-> [convs |-> convs, parts |-> parts, msgs |-> msgs, socks |-> socks,
            typing |-> typing]]

\* a step of the store alone: no handler ran, nothing is emitted or acknowledged
Quiet ==
  /\ emits' = <<>>
  /\ ack' = NoAck
  /\ UNCHANGED <<socks, online, presence>>

\* redis.sadd(chat:online, user) and hset(chat:presence:<user>, isOnline, lastSeen)
SetUserOnline(pr, u, now) == [pr EXCEPT ![u] = [isOnline |-> TRUE, lastSeen |-> now]]

\* redis.srem(chat:online, user) and hset(chat:presence:<user>, isOnline, lastSeen)
SetUserOffline(pr, u, now) == [pr EXCEPT ![u] = [isOnline |-> FALSE, lastSeen |-> now]]

\* a connection opens: the token's user is kept on the socket, the socket joins
\* the user's room and registerChatEvents sets the user online
Connect(s) ==
  /\ ~socks[s].connected
  /\ socks' = [socks EXCEPT ![s] = [userId |-> SocketUser[s], connected |-> TRUE,
                                     rooms |-> {UserRoom(SocketUser[s])}]]
  /\ online' = online \cup {SocketUser[s]}
  /\ presence' = SetUserOnline(presence, SocketUser[s], clock)
  /\ emits' = <<>>
  /\ ack' = NoAck
  /\ last' = NoCall /\ prev' = NoCall
  /\ UNCHANGED <<convs, parts, msgs, typing, clock, pc, loc, directRet>>

\* mutant of JoinReceipts: the receipt is emitted whether or not ids were marked
JoinReceiptsAlways(ss, s, c, ids, now) ==
  <<SocketEmit(ss, s, ConversationRoom(c), "delivery_receipt",
               [conversationId |-> c, userId |-> ss[s].userId, messageIds |-> ids,
                at |-> now])>>

\* the delivery receipt of the join handler: emitted when ids were marked
JoinReceipts(ss, s, c, ids, now) ==
  IF ids # {}
  THEN <<SocketEmit(ss, s, ConversationRoom(c), "delivery_receipt",
                    [conversationId |-> c, userId |-> ss[s].userId, messageIds |-> ids,
                     at |-> now])>>
  ELSE <<>>

\* the JOIN_CONVERSATION handler, uninterrupted
OnJoinConversation(s, c) ==
  LET u == socks[s].userId
      ids == FindUndelivered(msgs, c, u)
      joined == [socks EXCEPT ![s].rooms = @ \cup {ConversationRoom(c)}]
  IN /\ socks[s].connected
     /\ IF ~GetConversation(convs, c, u)
        THEN /\ ack' = Ack("join_conversation", s, <<c>>, FALSE)
             /\ emits' = <<>>
             /\ UNCHANGED <<socks, msgs>>
        ELSE /\ socks' = joined
             /\ msgs' = AddDeliveredTo(msgs, ids, u, clock)
             /\ emits' = JoinReceipts(joined, s, c, ids, clock)
                         \o <<SocketEmit(joined, s, ConversationRoom(c), "user_joined",
                                         [conversationId |-> c, userId |-> u])>>
             /\ ack' = Ack("join_conversation", s, <<c>>, TRUE)
     /\ last' = NoCall /\ prev' = NoCall
     /\ UNCHANGED <<convs, parts, typing, clock, pc, loc, directRet, online, presence>>

\* the LEAVE_CONVERSATION handler
OnLeaveConversation(s, c) ==
  LET u == socks[s].userId
      left == [socks EXCEPT ![s].rooms = @ \ {ConversationRoom(c)}]
  IN /\ socks[s].connected
     /\ socks' = left
     /\ typing' = ClearTyping(typing, c, u)
     /\ emits' = <<SocketEmit(left, s, ConversationRoom(c), "user_left",
                              [conversationId |-> c, userId |-> u])>>
     /\ ack' = Ack("leave_conversation", s, <<c>>, TRUE)
     /\ last' = NoCall /\ prev' = NoCall
     /\ UNCHANGED <<convs, parts, msgs, clock, pc, loc, directRet, online, presence>>

\* the MESSAGE_NEW packet of a message
MessageNew(ss, room, c, m) ==
  IoEmit(ss, room, "message_new", [conversationId |-> c, message |-> m])

\* the SEND_MESSAGE handler: sendMessage, then one emit to the conversation room
OnSendMessage(s, c, content) ==
  /\ socks[s].connected
  /\ SendMessageSeq(c, socks[s].userId, content)
  /\ emits' = IF last'.ok
              THEN <<MessageNew(socks, ConversationRoom(c), c, last'.ret)>>
              ELSE <<>>
  /\ ack' = Ack("send_message", s, <<c, socks[s].userId>>, last'.ok)
  /\ UNCHANGED <<socks, online, presence>>

RECURSIVE UserRoomEmits(_, _, _, _, _)
\* the loop over conversation.participants of the REST controller: one emit to
\* the user room of each entry that is not the sender
UserRoomEmits(ss, ps, sender, c, m) ==
  IF ps = <<>> THEN <<>>
  ELSE (IF Head(ps) # sender
        THEN <<MessageNew(ss, UserRoom(Head(ps)), c, m)>>
        ELSE <<>>)
       \o UserRoomEmits(ss, Tail(ps), sender, c, m)

\* POST /api/chat/conversations/:id/messages: sendMessage, one emit to the
\* conversation room, getConversation, then the emits to the user rooms; the
\* response stands in the place of the acknowledgment
RestSendMessage(u, c, content) ==
  /\ SendMessageSeq(c, u, content)
  /\ emits' = IF last'.ok
              THEN <<MessageNew(socks, ConversationRoom(c), c, last'.ret)>>
                   \o (IF GetConversation(convs', c, u)
                       THEN UserRoomEmits(socks, convs'[c].participants, u, c, last'.ret)
                       ELSE <<>>)
              ELSE <<>>
  /\ ack' = Ack("rest_send_message", 0, <<c, u>>, last'.ok)
  /\ UNCHANGED <<socks, online, presence>>

\* a handler whose service call threw: the callback gets success false and
\* nothing is emitted
HandlerFails(event, s, args) ==
  /\ ack' = Ack(event, s, args, FALSE)
  /\ emits' = <<>>
  /\ last' = NoCall /\ prev' = NoCall
  /\ UNCHANGED <<convs, parts, msgs, typing, clock, pc, loc, directRet>>
  /\ UNCHANGED <<socks, online, presence>>

\* the EDIT_MESSAGE handler
OnEditMessage(s, m, content) ==
  /\ socks[s].connected
  /\ EditMessageSeq(m, socks[s].userId, content)
  /\ emits' = IF last'.ok
              THEN <<IoEmit(socks, ConversationRoom(msgs[m].conversationId),
                            "message_updated",
                            [conversationId |-> msgs[m].conversationId, message |-> m])>>
              ELSE <<>>
  /\ ack' = Ack("edit_message", s, <<m>>, last'.ok)
  /\ UNCHANGED <<socks, online, presence>>

\* the DELETE_MESSAGE handler: Message.findById, deleteMessage and, for a
\* deletion for everyone, the emit
OnDeleteMessage(s, m, forEveryone) ==
  /\ socks[s].connected
  /\ \/ /\ m \notin DOMAIN msgs
        /\ HandlerFails("delete_message", s, <<m, forEveryone>>)
     \/ /\ m \in DOMAIN msgs
        /\ DeleteMessageSeq(m, socks[s].userId, forEveryone)
        /\ emits' = IF last'.ok /\ forEveryone
                    THEN <<IoEmit(socks, ConversationRoom(msgs[m].conversationId),
                                  "message_deleted",
                                  [conversationId |-> msgs[m].conversationId,
                                   messageId |-> m, deletedBy |-> socks[s].userId])>>
                    ELSE <<>>
        /\ ack' = Ack("delete_message", s, <<m, forEveryone>>, last'.ok)
        /\ UNCHANGED <<socks, online, presence>>

\* the TYPING packet: the users listed by getTypingUsers after the change
TypingPacket(ss, s, ty, c, now) ==
  SocketEmit(ss, s, ConversationRoom(c), "typing",
             [conversationId |-> c, typingUsers |-> GetTypingUsers(ty, c, now)])

\* the TYPING_START handler (it has no callback: the record names the handler)
OnTypingStart(s, c) ==
  /\ socks[s].connected
  /\ typing' = SetTyping(typing, c, socks[s].userId, clock)
  /\ emits' = <<TypingPacket(socks, s, typing', c, clock)>>
  /\ ack' = Ack("typing_start", s, <<c>>, TRUE)
  /\ last' = NoCall /\ prev' = NoCall
  /\ UNCHANGED <<convs, parts, msgs, clock, pc, loc, directRet, socks, online, presence>>

\* the TYPING_STOP handler (no callback either)
OnTypingStop(s, c) ==
  /\ socks[s].connected
  /\ typing' = ClearTyping(typing, c, socks[s].userId)
  /\ emits' = <<TypingPacket(socks, s, typing', c, clock)>>
  /\ ack' = Ack("typing_stop", s, <<c>>, TRUE)
  /\ last' = NoCall /\ prev' = NoCall
  /\ UNCHANGED <<convs, parts, msgs, clock, pc, loc, directRet, socks, online, presence>>

\* the MARK_READ handler: the receipt is emitted when messages were marked
OnMarkRead(s, c, r) ==
  /\ socks[s].connected
  /\ MarkAsReadSeq(c, socks[s].userId, r)
  /\ emits' = IF last'.ret # {}
              THEN <<IoEmit(socks, ConversationRoom(c), "read_receipt",
                            [conversationId |-> c, userId |-> socks[s].userId,
                             messageIds |-> last'.ret, at |-> clock])>>
              ELSE <<>>
  /\ ack' = Ack("mark_read", s, <<c, r>>, TRUE)
  /\ UNCHANGED <<socks, online, presence>>

\* the MARK_DELIVERED handler: the receipt carries the ids of the payload
OnMarkDelivered(s, c, ids) ==
  /\ socks[s].connected
  /\ MarkAsDeliveredSeq(ids, socks[s].userId)
  /\ emits' = <<SocketEmit(socks, s, ConversationRoom(c), "delivery_receipt",
                           [conversationId |-> c, userId |-> socks[s].userId,
                            messageIds |-> ids, at |-> clock])>>
  /\ ack' = Ack("mark_delivered", s, <<c, ids>>, TRUE)
  /\ UNCHANGED <<socks, online, presence>>

\* the REACTION_UPDATED packet with the reactions of the returned document
ReactionUpdated(ss, ms, m) ==
  IoEmit(ss, ConversationRoom(ms[m].conversationId), "reaction_updated",
         [conversationId |-> ms[m].conversationId, messageId |-> m,
          reactions |-> ms[m].reactions])

\* the ADD_REACTION handler
OnAddReaction(s, m, e) ==
  /\ socks[s].connected
  /\ \/ /\ m \notin DOMAIN msgs
        /\ HandlerFails("add_reaction", s, <<m, e>>)
     \/ /\ AddReactionSeq(m, socks[s].userId, e)
        /\ emits' = <<ReactionUpdated(socks, msgs', m)>>
        /\ ack' = Ack("add_reaction", s, <<m, e>>, TRUE)
        /\ UNCHANGED <<socks, online, presence>>

\* the REMOVE_REACTION handler
OnRemoveReaction(s, m, e) ==
  /\ socks[s].connected
  /\ \/ /\ m \notin DOMAIN msgs
        /\ HandlerFails("remove_reaction", s, <<m, e>>)
     \/ /\ RemoveReaction(m, socks[s].userId, e)
        /\ emits' = <<ReactionUpdated(socks, msgs', m)>>
        /\ ack' = Ack("remove_reaction", s, <<m, e>>, TRUE)
        /\ UNCHANGED <<socks, online, presence>>

\* the TOGGLE_REACTION handler
OnToggleReaction(s, m, e) ==
  /\ socks[s].connected
  /\ \/ /\ m \notin DOMAIN msgs
        /\ HandlerFails("toggle_reaction", s, <<m, e>>)
     \/ /\ ToggleReactionSeq(m, socks[s].userId, e)
        /\ emits' = <<ReactionUpdated(socks, msgs', m)>>
        /\ ack' = Ack("toggle_reaction", s, <<m, e>>, TRUE)
        /\ UNCHANGED <<socks, online, presence>>

\* findOneAndUpdate({conversationId, userId}, {$set: {isArchived: true}})
Archive(ps, c, u) ==
  LET hits == {i \in DOMAIN ps : ps[i].conversationId = c /\ ps[i].userId = u}
  IN [i \in DOMAIN ps |->
        IF hits # {} /\ i = Min(hits) THEN [ps[i] EXCEPT !.isArchived = TRUE]
        ELSE ps[i]]

\* archiveConversation
ArchiveConversation(c, u) ==
  /\ parts' = Archive(parts, c, u)
  /\ last' = NoCall /\ prev' = NoCall
  /\ UNCHANGED <<convs, msgs, typing, clock, pc, loc, directRet>>

\* getUserConversations: the active conversations of the user's records that
\* are active and not archived (the page of 100 holds all of the model's)
GetUserConversations(ps, cs, u) ==
  {c \in DOMAIN cs :
     /\ cs[c].isActive
     /\ \E i \in DOMAIN ps :
          /\ ps[i].conversationId = c /\ ps[i].userId = u
          /\ ps[i].isActive /\ ~ps[i].isArchived}

RECURSIVE PresenceEmits(_, _, _, _, _)
\* the loop of the disconnect handler: one PRESENCE packet to the room of each
\* listed conversation (taken by ascending id: the list's order is not modelled)
PresenceEmits(ss, s, cset, u, now) ==
  IF cset = {} THEN <<>>
  ELSE LET c == Min(cset)
       IN <<SocketEmit(ss, s, ConversationRoom(c), "presence",
                       [userId |-> u, isOnline |-> FALSE, lastSeen |-> now])>>
          \o PresenceEmits(ss, s, cset \ {c}, u, now)

\* the connection closes: Socket.IO takes it out of its rooms, then the
\* disconnect handler runs setUserOffline, getUserConversations and the emits
OnDisconnect(s) ==
  LET u == socks[s].userId
      closed == [socks EXCEPT ![s] = [userId |-> u, connected |-> FALSE, rooms |-> {}]]
  IN /\ socks[s].connected
     /\ socks' = closed
     /\ online' = online \ {u}
     /\ presence' = SetUserOffline(presence, u, clock)
     /\ emits' = PresenceEmits(closed, s, GetUserConversations(parts, convs, u), u, clock)
     /\ ack' = Ack("disconnect", s, <<>>, TRUE)
     /\ last' = NoCall /\ prev' = NoCall
     /\ UNCHANGED <<convs, parts, msgs, typing, clock, pc, loc, directRet>>

\* ChatController.removeParticipant: the service call, then the removed user
\* is notified through the user's room
RestRemoveParticipant(admin, c, u) ==
  /\ RemoveParticipantSeq(c, admin, u)
  /\ emits' = IF last'.ok
              THEN <<IoEmit(socks, UserRoom(u), "conversation:updated",
                            [type |-> "removed_from_group", conversationId |-> c])>>
              ELSE <<>>
  /\ ack' = Ack("rest_remove_participant", 0, <<c, admin, u>>, last'.ok)
  /\ UNCHANGED <<socks, online, presence>>

\* ChatController.leaveConversation: the service call alone
RestLeaveConversation(u, c) ==
  /\ LeaveConversationSeq(c, u)
  /\ emits' = <<>>
  /\ ack' = Ack("rest_leave_conversation", 0, <<c, u>>, last'.ok)
  /\ UNCHANGED <<socks, online, presence>>

\* ---------------------------------------------------------------- the ephemeral store is unavailable
\* setTyping: up tells whether the store answers the setex
SetTypingTry(c, u, up) ==
  LET r == Swallow(Redis(up, SetTyping(typing, c, u, clock)), typing)
  IN /\ typing' = IF r.raised THEN typing ELSE r.value
     /\ last' = [op |-> "setTyping", args |-> <<c, u, up>>, ok |-> ~r.raised,
                 ret |-> 0, pre |-> clock]
     /\ prev' = NoCall
     /\ UNCHANGED <<convs, parts, msgs, clock, pc, loc, directRet, sockVars>>

\* clearTyping
ClearTypingTry(c, u, up) ==
  LET r == Swallow(Redis(up, ClearTyping(typing, c, u)), typing)
  IN /\ typing' = IF r.raised THEN typing ELSE r.value
     /\ last' = [op |-> "clearTyping", args |-> <<c, u, up>>, ok |-> ~r.raised,
                 ret |-> 0, pre |-> clock]
     /\ prev' = NoCall
     /\ UNCHANGED <<convs, parts, msgs, clock, pc, loc, directRet, sockVars>>

\* getTypingUsers: the catch block returns []
GetTypingUsersTry(c, up) ==
  LET r == Swallow(Redis(up, GetTypingUsers(typing, c, clock)), {})
  IN /\ last' = [op |-> "getTypingUsers", args |-> <<c, 0, up>>, ok |-> ~r.raised,
                 ret |-> IF r.raised THEN {} ELSE r.value, pre |-> clock]
     /\ prev' = NoCall
     /\ UNCHANGED <<convs, parts, msgs, typing, clock, pc, loc, directRet, sockVars>>

\* setUserOnline: n of its two commands (sadd, hset) are answered before the
\* store is lost
SetUserOnlineTry(u, n) ==
  LET r == Swallow(Redis(n = 2, 0), 0)
  IN /\ online' = IF n >= 1 THEN online \cup {u} ELSE online
     /\ presence' = IF n = 2 THEN SetUserOnline(presence, u, clock) ELSE presence
     /\ last' = [op |-> "setUserOnline", args |-> <<u, n>>, ok |-> ~r.raised,
                 ret |-> 0, pre |-> clock]
     /\ prev' = NoCall
     /\ UNCHANGED <<convs, parts, msgs, typing, clock, pc, loc, directRet,
                    socks, emits, ack>>

\* setUserOffline: n of its two commands (srem, hset) are answered
SetUserOfflineTry(u, n) ==
  LET r == Swallow(Redis(n = 2, 0), 0)
  IN /\ online' = IF n >= 1 THEN online \ {u} ELSE online
     /\ presence' = IF n = 2 THEN SetUserOffline(presence, u, clock) ELSE presence
     /\ last' = [op |-> "setUserOffline", args |-> <<u, n>>, ok |-> ~r.raised,
                 ret |-> 0, pre |-> clock]
     /\ prev' = NoCall
     /\ UNCHANGED <<convs, parts, msgs, typing, clock, pc, loc, directRet,
                    socks, emits, ack>>

\* ---------------------------------------------------------------- fan-out across backend processes
\* the connections held by backend process p that are in a room
LocalRoom(ss, p, room) == {s \in InRoom(ss, room) : SocketProcess[s] = p}

\* mutant of Subscribers: the default in-memory adapter, no process subscribes
NoSubscribers(p) == {}

\* createAdapter(pubClient, subClient): every other process is subscribed to
\* the channel that process p publishes its broadcasts on
Subscribers(p) == Procs \ {p}

\* the connection handler of a process: the socket joins its user's room
FanConnect(s) ==
  /\ ~socks[s].connected
  /\ socks' = [socks EXCEPT ![s] = [userId |-> SocketUser[s], connected |-> TRUE,
                                     rooms |-> {UserRoom(SocketUser[s])}]]
  /\ UNCHANGED <<storeVars, emits, ack, online, presence>>

\* socket.join(conversation room)
FanJoin(s, c) ==
  /\ socks[s].connected
  /\ ConversationRoom(c) \notin socks[s].rooms
  /\ socks' = [socks EXCEPT ![s].rooms = @ \cup {ConversationRoom(c)}]
  /\ UNCHANGED <<storeVars, emits, ack, online, presence>>

\* io.to(room).emit(event, data) on process p: the adapter sends the packet to
\* the local connections of the room and publishes it to the subscribed
\* processes; members are the connections in the room at that moment
EmitToRoom(p, room, event) ==
  /\ Len(emits) < MaxPackets
  /\ emits' = Append(emits, [event |-> event, room |-> room, from |-> p,
                             members |-> InRoom(socks, room),
                             to |-> LocalRoom(socks, p, room),
                             pending |-> Subscribers(p)])
  /\ UNCHANGED <<storeVars, socks, ack, online, presence>>

\* the adapter of process q receives published packet i and emits it to its
\* own connections of the room
AdapterDeliver(q, i) ==
  /\ i \in DOMAIN emits
  /\ q \in emits[i].pending
  /\ emits' = [emits EXCEPT ![i].to = @ \cup LocalRoom(socks, q, emits[i].room),
                            ![i].pending = @ \ {q}]
  /\ UNCHANGED <<storeVars, socks, ack, online, presence>>

\* ---------------------------------------------------------------- claims on createDirectConversation
PairOf(i) == Range(convs[i].participants)

DirectConvsOf(a, b) ==
  {i \in DOMAIN convs : convs[i].type = "direct" /\ PairOf(i) = {a, b}}

\* C1: every createDirectConversation call on distinct users a, b, run one
\* after another in either argument order, returns the one direct
\* conversation of {a, b}: all ids returned for a pair agree, and at most one
\* direct conversation per unordered pair exists.
C1_DirectIdempotent ==
  /\ (last.op = "createDirect" /\ last.args[1] # last.args[2])
       => /\ last.ok
          /\ last.ret \in DirectConvsOf(last.args[1], last.args[2])
  /\ \A x \in directRet, y \in directRet :
       {x[1], x[2]} = {y[1], y[2]} => x[3] = y[3]
  /\ \A a \in Users, b \in Users : Cardinality(DirectConvsOf(a, b)) <= 1

\* C2: two createDirectConversation calls on the same pair that both looked
\* up before either created both end without error, return the same
\* conversation, and leave one conversation with two participant records.
C2_ConcurrentDirectNoError ==
  \A p \in Procs, q \in Procs :
    (/\ p # q
     /\ pc[p] = "idle" /\ pc[q] = "idle"
     /\ loc[p].op = "createDirect" /\ loc[q].op = "createDirect"
     /\ loc[p].raced /\ loc[q].raced
     /\ {loc[p].a, loc[p].b} = {loc[q].a, loc[q].b})
    => /\ loc[p].status = "ok" /\ loc[q].status = "ok"
       /\ loc[p].ret = loc[q].ret
       /\ Cardinality(DirectConvsOf(loc[p].a, loc[p].b)) = 1
       /\ Cardinality({i \in DOMAIN parts :
                         parts[i].conversationId = loc[p].ret}) = 2


\* ---------------------------------------------------------------- claims on reactions
\* C3: two successive toggleReaction(m, u, e) calls with nothing in between
\* leave the set of (emoji, userId) pairs of m as it was; the first reports
\* added = (the pair was absent), the second the opposite.
C3_ToggleTwiceRestores ==
  (/\ prev.op = "toggleReaction" /\ last.op = "toggleReaction"
   /\ prev.args = last.args)
  => /\ ReactionSet(last.args[1]) = prev.pre
     /\ prev.ret = (Reaction(last.args[3], last.args[2]) \notin prev.pre)
     /\ last.ret = ~prev.ret

\* C4: two toggleReaction(m, u, e) calls that both loaded the message
\* before either saved, with no other write to m meanwhile, leave the pair
\* at most once in m.reactions and the list as it was before them.
C4_ConcurrentToggleRestores ==
  \A p \in Procs, q \in Procs :
    (/\ p # q
     /\ pc[p] = "idle" /\ pc[q] = "idle"
     /\ loc[p].op = "toggleReaction" /\ loc[q].op = "toggleReaction"
     /\ SameReactionCall(loc[p], loc[q])
     /\ loc[p].raced /\ loc[q].raced
     /\ ~loc[p].interfered /\ ~loc[q].interfered)
    => /\ CountOf(msgs[loc[p].m].reactions, Reaction(loc[p].e, loc[p].u)) <= 1
       /\ msgs[loc[p].m].reactions = loc[p].doc

\* C5: no message's reactions list holds two entries with the same
\* (emoji, userId) pair.
C5_NoDuplicateReactions ==
  \A m \in DOMAIN msgs : \A i \in DOMAIN msgs[m].reactions,
                            j \in DOMAIN msgs[m].reactions :
    msgs[m].reactions[i] = msgs[m].reactions[j] => i = j

\* ---------------------------------------------------------------- claims on unread counters and receipts
\* C6: a successful sendMessage in c raises the unreadCount of every active
\* participant of c other than the sender by exactly 1 and leaves the
\* sender's (and every other record's) unchanged; right after markAsRead(c, u)
\* the unreadCount of u in c is 0.
C6_UnreadIncrementAndReset ==
  /\ (last.op = "sendMessage" /\ last.ok)
       => \A i \in DOMAIN parts :
            parts[i].unreadCount =
              IF /\ parts[i].conversationId = last.args[1]
                 /\ parts[i].userId # last.args[2]
                 /\ parts[i].isActive
              THEN last.pre[i] + 1 ELSE last.pre[i]
  /\ last.op = "markAsRead"
       => \A i \in DOMAIN parts :
            (parts[i].conversationId = last.args[1] /\ parts[i].userId = last.args[2])
              => parts[i].unreadCount = 0

\* a send that counts from a counter reset by an earlier markAsRead
C6_Witness ==
  /\ last.op = "sendMessage" /\ last.ok
  /\ \E i \in DOMAIN parts :
       /\ parts[i].userId \in Readers
       /\ parts[i].unreadCount = 1 /\ last.pre[i] = 0
       /\ Cardinality({m \in DOMAIN msgs : msgs[m].senderId # parts[i].userId}) = 2

\* C7: with no call in progress, the unreadCount of every active participant
\* u of c is non-negative and equals the number of messages of c not sent by
\* u whose readBy lacks u.
C7_UnreadMatchesReadBy ==
  (\A p \in Procs : pc[p] = "idle")
  => \A i \in DOMAIN parts :
       parts[i].isActive
       => /\ parts[i].unreadCount >= 0
          /\ parts[i].unreadCount =
               Cardinality({m \in DOMAIN msgs :
                              /\ msgs[m].conversationId = parts[i].conversationId
                              /\ msgs[m].senderId # parts[i].userId
                              /\ parts[i].userId \notin ReceiptUsers(msgs[m].readBy)})

\* C8: of two markAsRead(c, u, r) calls in a row, the second returns no id
\* and leaves every message's set of readBy users as the first left it.
C8_MarkAsReadIdempotent ==
  (prev.op = "markAsRead" /\ last.op = "markAsRead" /\ prev.args = last.args)
  => /\ last.ret = {}
     /\ ReadByUsers = last.pre

\* the first of the two calls marked something
C8_Witness ==
  /\ prev.op = "markAsRead" /\ last.op = "markAsRead" /\ prev.args = last.args
  /\ prev.ret # {}
  /\ last.args[3] # 0

\* C9: after markAsRead(c, u, r) with an existing r, u is in readBy of every
\* message of c not sent by u created at or before r, u was added to no
\* message created after r or sent by u, and the returned ids are exactly
\* the messages u was newly added to.
C9_MarkAsReadUpTo ==
  (last.op = "markAsRead" /\ last.args[3] \in DOMAIN msgs)
  => LET c == last.args[1]
         u == last.args[2]
         r == last.args[3]
     IN /\ \A m \in DOMAIN msgs :
             /\ (/\ msgs[m].conversationId = c
                 /\ msgs[m].senderId # u
                 /\ msgs[m].createdAt <= msgs[r].createdAt)
                  => u \in ReadByUsers[m]
             /\ (msgs[m].createdAt > msgs[r].createdAt \/ msgs[m].senderId = u)
                  => (u \in ReadByUsers[m] <=> u \in last.pre[m])
        /\ last.ret = {m \in DOMAIN msgs : u \notin last.pre[m] /\ u \in ReadByUsers[m]}

\* a call that marked a message and left a later one of another sender unread
C9_Witness ==
  /\ last.op = "markAsRead" /\ last.args[3] \in DOMAIN msgs
  /\ last.ret # {}
  /\ \E m \in DOMAIN msgs :
       /\ msgs[m].createdAt > msgs[last.args[3]].createdAt
       /\ msgs[m].senderId # last.args[2]
       /\ last.args[2] \notin ReadByUsers[m]

\* C10: no user appears twice in a message's deliveredTo list or twice in its
\* readBy list.
C10_ReceiptsUnique ==
  \A m \in DOMAIN msgs :
    /\ \A i \in DOMAIN msgs[m].deliveredTo, j \in DOMAIN msgs[m].deliveredTo :
         msgs[m].deliveredTo[i].userId = msgs[m].deliveredTo[j].userId => i = j
    /\ \A i \in DOMAIN msgs[m].readBy, j \in DOMAIN msgs[m].readBy :
         msgs[m].readBy[i].userId = msgs[m].readBy[j].userId => i = j

\* C11: after markAsDelivered(ids, u), u is in deliveredTo of every listed
\* message that exists; a further call with the same arguments, at any later
\* time, leaves every deliveredTo list (entries and timestamps) as it was.
C11_MarkAsDeliveredIdempotent ==
  (last.op = "markAsDelivered")
  => /\ \A m \in last.args[1] \cap DOMAIN msgs :
          last.args[2] \in ReceiptUsers(msgs[m].deliveredTo)
     /\ (prev.op = "markAsDelivered" /\ prev.args = last.args)
          => DeliveredLists = last.pre

\* the second call ran later than the receipt the first one wrote
C11_Witness ==
  /\ prev.op = "markAsDelivered" /\ last.op = "markAsDelivered"
  /\ prev.args = last.args
  /\ \E m \in last.args[1] \cap DOMAIN msgs :
       /\ last.args[2] \notin ReceiptUsers(prev.pre[m])
       /\ \E i \in DOMAIN msgs[m].deliveredTo :
            /\ msgs[m].deliveredTo[i].userId = last.args[2]
            /\ msgs[m].deliveredTo[i].at < clock

\* ---------------------------------------------------------------- claims on editMessage and deleteMessage
Tombstoned(doc) ==
  doc.isDeleted /\ doc.attachments = <<>> /\ doc.content = Placeholder

\* C12 as stated: right after a successful deleteMessage(m, sender, true) m
\* is deleted with no attachments and the placeholder content; an
\* editMessage on a deleted m, by any user, fails with the message-not-found
\* error and leaves every message unchanged.
C12_EditTombstoneNotFound ==
  /\ (last.op = "deleteMessage" /\ last.ok /\ last.args[3])
       => Tombstoned(msgs[last.args[1]])
  /\ (/\ last.op = "editMessage"
      /\ last.args[1] \in DOMAIN last.pre
      /\ last.pre[last.args[1]].isDeleted)
       => /\ ~last.ok
          /\ last.ret = "MESSAGE_NOT_FOUND"
          /\ msgs = last.pre

\* C12 amended: the same, except that the error of the failed edit is
\* message-not-found for the sender and the cannot-edit-others error for
\* every other user.
C12_EditTombstoneFails ==
  /\ (last.op = "deleteMessage" /\ last.ok /\ last.args[3])
       => Tombstoned(msgs[last.args[1]])
  /\ (/\ last.op = "editMessage"
      /\ last.args[1] \in DOMAIN last.pre
      /\ last.pre[last.args[1]].isDeleted)
       => /\ ~last.ok
          /\ last.ret = IF last.pre[last.args[1]].senderId = last.args[2]
                        THEN "MESSAGE_NOT_FOUND"
                        ELSE "CANNOT_EDIT_OTHERS_MESSAGE"
          /\ msgs = last.pre

\* the sender's edit of a message that had attachments and was deleted
C12_Witness ==
  /\ last.op = "editMessage"
  /\ last.args[1] \in DOMAIN last.pre
  /\ Tombstoned(last.pre[last.args[1]])
  /\ last.pre[last.args[1]].version > 0
  /\ last.pre[last.args[1]].senderId = last.args[2]

\* C13: a deleted message has the placeholder content and no attachments,
\* and isDeleted never returns to false, whatever the interleaving of the
\* sender's editMessage and deleteMessage(forEveryone) steps.
C13_TombstoneImmutable ==
  /\ [](\A m \in DOMAIN msgs : msgs[m].isDeleted => Tombstoned(msgs[m]))
  /\ [][\A m \in DOMAIN msgs : msgs[m].isDeleted => msgs'[m].isDeleted]_vars

\* C14: editMessage and deleteMessage(forEveryone) by a user other than the
\* sender of an existing message fail with the authorization error of the
\* operation and leave every message unchanged.
C14_OnlySenderEditsDeletes ==
  (/\ last.op \in {"editMessage", "deleteMessage"}
   /\ last.args[1] \in DOMAIN last.pre
   /\ last.pre[last.args[1]].senderId # last.args[2]
   /\ (last.op = "deleteMessage" => last.args[3]))
  => /\ ~last.ok
     /\ last.ret = IF last.op = "editMessage" THEN "CANNOT_EDIT_OTHERS_MESSAGE"
                   ELSE "CANNOT_DELETE_OTHERS_MESSAGE"
     /\ msgs = last.pre

\* another participant tried to delete a live message for everyone
C14_Witness ==
  /\ last.op = "deleteMessage" /\ last.args[3]
  /\ last.args[1] \in DOMAIN last.pre
  /\ ~last.pre[last.args[1]].isDeleted
  /\ last.pre[last.args[1]].attachments # <<>>
  /\ last.pre[last.args[1]].senderId # last.args[2]
  /\ GetConversation(convs, last.pre[last.args[1]].conversationId, last.args[2])

\* C15: deleteMessage(m, u, false) on an existing m changes nothing but
\* m.deletedFor, which gains u once; afterwards getMessages for u does not
\* return m, and for every other participant it returns what it returned
\* before (m included unless that user deleted it for themselves).
C15_DeleteForSelfFrame ==
  (/\ last.op = "deleteMessage" /\ ~last.args[3]
   /\ last.args[1] \in DOMAIN last.pre)
  => LET m == last.args[1]
         u == last.args[2]
         c == msgs[m].conversationId
     IN /\ last.ok
        /\ msgs = [last.pre EXCEPT ![m].deletedFor = msgs[m].deletedFor]
        /\ Range(msgs[m].deletedFor) = Range(last.pre[m].deletedFor) \cup {u}
        /\ CountOf(msgs[m].deletedFor, u) = 1
        /\ m \notin GetMessages(convs, msgs, c, u)
        /\ \A v \in Range(convs[c].participants) \ {u} :
             /\ GetMessages(convs, msgs, c, v) = GetMessages(convs, last.pre, c, v)
             /\ v \notin Range(last.pre[m].deletedFor)
                  => m \in GetMessages(convs, msgs, c, v)

\* a participant repeats the call, the other participant still sees m
C15_Witness ==
  /\ last.op = "deleteMessage" /\ ~last.args[3]
  /\ prev.op = "deleteMessage" /\ prev.args = last.args
  /\ last.args[1] \in DOMAIN msgs
  /\ LET m == last.args[1]
         c == msgs[m].conversationId
     IN /\ GetConversation(convs, c, last.args[2])
        /\ last.args[2] \notin Range(prev.pre[m].deletedFor)
        /\ \E v \in Range(convs[c].participants) \ {last.args[2]} :
             m \in GetMessages(convs, msgs, c, v)

\* ---------------------------------------------------------------- claims on membership
ActiveRecord(ps, c, u) ==
  \E i \in DOMAIN ps : ps[i].conversationId = c /\ ps[i].userId = u /\ ps[i].isActive

HasRecord(ps, c, u) ==
  \E i \in DOMAIN ps : ps[i].conversationId = c /\ ps[i].userId = u

\* C16: a sendMessage by a user with no active participant record of the
\* conversation (absent or isActive = false), at any point of a concurrent
\* removeParticipant or leaveConversation, fails with the not-participant
\* error and changes no unreadCount.
C16_InactiveCannotSend ==
  (last.op = "sendMessage" /\ ~ActiveRecord(parts, last.args[1], last.args[2]))
  => /\ ~last.ok
     /\ last.ret = "NOT_PARTICIPANT"
     /\ UnreadCounts = last.pre

\* C17: createGroupConversation with a blank or missing name, or with fewer
\* than 2 distinct participants other than the creator, is rejected and
\* creates no conversation and no participant record.
C17_GroupRejected ==
  (/\ last.op = "createGroup"
   /\ \/ Trim(last.args[2]) = ""
      \/ Cardinality(Range(last.args[3]) \ {last.args[1]}) < 2)
  => /\ ~last.ok
     /\ Len(convs) = last.pre.convs
     /\ Len(parts) = last.pre.parts

\* C18: when an admin A of group c removes B, who has a participant record
\* of c and is not the creator, the call succeeds; afterwards B's record
\* exists with isActive = false, B is in neither participants nor admins of
\* c, and the messages that existed are unchanged.
C18_RemoveDeactivates ==
  (/\ last.op = "removeParticipant"
   /\ last.args[1] \in DOMAIN last.pre.convs
   /\ last.pre.convs[last.args[1]].type = "group"
   /\ GetConversation(last.pre.convs, last.args[1], last.args[2])
   /\ last.args[2] \in Range(last.pre.convs[last.args[1]].admins)
   /\ last.args[3] # last.pre.convs[last.args[1]].createdBy
   /\ HasRecord(last.pre.parts, last.args[1], last.args[3]))
  => LET c == last.args[1]
         b == last.args[3]
     IN /\ last.ok
        /\ HasRecord(parts, c, b)
        /\ ~ActiveRecord(parts, c, b)
        /\ b \notin Range(convs[c].participants)
        /\ b \notin Range(convs[c].admins)
        /\ Len(msgs) >= Len(last.pre.msgs)
        /\ SubSeq(msgs, 1, Len(last.pre.msgs)) = last.pre.msgs

\* the removed user was an active participant of a group with a message
C18_Witness ==
  /\ last.op = "removeParticipant" /\ last.ok
  /\ ActiveRecord(last.pre.parts, last.args[1], last.args[3])
  /\ last.args[3] \in Range(last.pre.convs[last.args[1]].participants)
  /\ last.pre.msgs # <<>>

\* C19: removeParticipant by a caller who is not an admin, or on the creator,
\* or on a direct conversation, and addParticipants by a caller who is not
\* an admin or on a direct conversation, fail and leave conversations,
\* participant records and messages unchanged.
C19_MembershipRefused ==
  (/\ last.op \in {"removeParticipant", "addParticipants"}
   /\ last.args[1] \in DOMAIN last.pre.convs
   /\ \/ last.args[2] \notin Range(last.pre.convs[last.args[1]].admins)
      \/ last.pre.convs[last.args[1]].type = "direct"
      \/ /\ last.op = "removeParticipant"
         /\ last.args[3] = last.pre.convs[last.args[1]].createdBy)
  => /\ ~last.ok
     /\ MemberState = last.pre

\* the admin of a group tried to remove its creator
C19_Witness ==
  /\ last.op = "removeParticipant"
  /\ last.pre.convs[last.args[1]].type = "group"
  /\ last.args[2] \in Range(last.pre.convs[last.args[1]].admins)
  /\ last.args[3] = last.pre.convs[last.args[1]].createdBy
  /\ Len(last.pre.convs[last.args[1]].participants) = 3

\* ---------------------------------------------------------------- claims on pinned messages
\* C20: with no call in progress, a message is in the pinnedMessages list of
\* its conversation exactly when its isPinned is true, and at most once,
\* after any interleaving of pinMessage and unpinMessage calls.
C20_PinnedInSync ==
  (\A p \in Procs : pc[p] = "idle")
  => \A m \in DOMAIN msgs :
       LET pinned == convs[msgs[m].conversationId].pinnedMessages
       IN /\ (m \in Range(pinned)) <=> msgs[m].isPinned
          /\ CountOf(pinned, m) <= 1

\* ---------------------------------------------------------------- claims on typing indicators
\* C21: after setTyping(X, A), with no later typing call for that key, A is in
\* getTypingUsers(X) at every instant before the call's instant plus the TTL
\* (a further setTyping counts from its own instant) and at no instant from
\* then on, without any clearTyping
C21_TypingExpires ==
  last.op = "setTyping" =>
    LET c == last.args[1]
        u == last.args[2]
    IN (u \in GetTypingUsers(typing, c, clock)) <=> (clock < last.pre + TypingTTL)

\* a refreshed key outlives its first lifetime, and a key expires untouched
C21_Witness ==
  /\ last.op = "setTyping" /\ prev.op = "setTyping"
  /\ clock >= prev.pre + TypingTTL
  /\ last.args[2] \in GetTypingUsers(typing, last.args[1], clock)

C21_WitnessExpired ==
  /\ last.op = "setTyping"
  /\ clock >= last.pre + TypingTTL
  /\ last.args[2] \notin GetTypingUsers(typing, last.args[1], clock)
  /\ \E k \in typing : k.userId = last.args[2]

\* ---------------------------------------------------------------- claims on joining a conversation room
\* C22: a join-conversation event from a connection whose user has no active
\* participant record of the conversation is acknowledged with success false,
\* leaves the connection's rooms and the messages as they were and emits
\* nothing.
C22_JoinRefused ==
  (/\ ack.event = "join_conversation"
   /\ ~ActiveRecord(ack.pre.parts, ack.args[1], ack.pre.socks[ack.socket].userId))
  => /\ ~ack.success
     /\ socks[ack.socket].rooms = ack.pre.socks[ack.socket].rooms
     /\ msgs = ack.pre.msgs
     /\ emits = <<>>

\* C23: after a successful join-conversation event by user u, u is in
\* deliveredTo of every message of the conversation not sent by u that
\* existed when the join started; a delivery receipt is emitted exactly when
\* some message was newly marked, it goes to the rest of the room and lists
\* exactly the messages that lacked u in deliveredTo before and have u now.
C23_JoinDelivers ==
  (ack.event = "join_conversation" /\ ack.success)
  => LET c == ack.args[1]
         u == socks[ack.socket].userId
         newly == {m \in DOMAIN ack.pre.msgs :
                     /\ u \notin ReceiptUsers(ack.pre.msgs[m].deliveredTo)
                     /\ u \in ReceiptUsers(msgs[m].deliveredTo)}
         receipts == {i \in DOMAIN emits : emits[i].event = "delivery_receipt"}
     IN /\ \A m \in DOMAIN ack.pre.msgs :
             (ack.pre.msgs[m].conversationId = c /\ ack.pre.msgs[m].senderId # u)
             => u \in ReceiptUsers(msgs[m].deliveredTo)
        /\ Cardinality(receipts) = IF newly = {} THEN 0 ELSE 1
        /\ \A i \in receipts :
             /\ emits[i].data.messageIds = newly
             /\ emits[i].data.userId = u
             /\ emits[i].to = InRoom(socks, ConversationRoom(c)) \ {ack.socket}

\* a join marked a message while another connection was in the room
C23_Witness ==
  /\ ack.event = "join_conversation" /\ ack.success
  /\ \E i \in DOMAIN emits :
       /\ emits[i].event = "delivery_receipt"
       /\ emits[i].data.messageIds # {}
       /\ emits[i].to # {}

\* a join that found every message delivered already
C23_WitnessNone ==
  /\ ack.event = "join_conversation" /\ ack.success
  /\ \E m \in DOMAIN ack.pre.msgs : ack.pre.msgs[m].senderId # socks[ack.socket].userId
  /\ \A i \in DOMAIN emits : emits[i].event # "delivery_receipt"

\* ---------------------------------------------------------------- claims on the fan-out of new messages
\* the open connections of the participants of c other than the sender
OtherConnections(c, sender) ==
  {s \in Sockets : /\ socks[s].connected
                   /\ socks[s].userId # sender
                   /\ ActiveRecord(parts, c, socks[s].userId)}

\* the number of MESSAGE_NEW packets of the last handler that reached s
NewMessagePackets(s) ==
  Cardinality({i \in DOMAIN emits : emits[i].event = "message_new" /\ s \in emits[i].to})

\* C24: after a successful send-message socket event in conversation c, every
\* open connection of every other participant of c has received the
\* new-message event, also a connection that is in its user room only.
C24_SocketSendReachesAll ==
  (ack.event = "send_message" /\ ack.success)
  => \A s \in OtherConnections(ack.args[1], ack.args[2]) : NewMessagePackets(s) >= 1

\* C25: after a message was sent, through the socket event or the REST
\* endpoint, every open connection of every other participant has received
\* the new-message event exactly once, whatever rooms it is in.
C25_NewMessageOnce ==
  (ack.event \in {"send_message", "rest_send_message"} /\ ack.success)
  => \A s \in OtherConnections(ack.args[1], ack.args[2]) : NewMessagePackets(s) = 1

\* ---------------------------------------------------------------- claims on the event handlers
MutatingEvents ==
  {"send_message", "edit_message", "delete_message", "add_reaction",
   "remove_reaction", "toggle_reaction", "mark_read", "mark_delivered",
   "join_conversation"}

\* the last handler left collections and rooms as it found them
NothingChanged ==
  /\ convs = ack.pre.convs
  /\ parts = ack.pre.parts
  /\ msgs = ack.pre.msgs
  /\ socks = ack.pre.socks

\* a delivery receipt names only messages that gained the user in deliveredTo
ReceiptPersisted(e) ==
  \A m \in e.data.messageIds :
    /\ m \in DOMAIN msgs
    /\ e.data.userId \in ReceiptUsers(msgs[m].deliveredTo)
    /\ m \in DOMAIN ack.pre.msgs
       => e.data.userId \notin ReceiptUsers(ack.pre.msgs[m].deliveredTo)

\* C26: when the engine operation of a mutating socket event failed or
\* changed no state, nothing is emitted and the acknowledgment has success
\* false; a delivery receipt that is emitted lists only messages whose
\* deliveredTo gained the user in this handler.
C26_NoBroadcastWithoutChange ==
  ack.event \in MutatingEvents
  => /\ NothingChanged => (emits = <<>> /\ ~ack.success)
     /\ \A i \in DOMAIN emits :
          emits[i].event = "delivery_receipt" => ReceiptPersisted(emits[i])

\* the conversations an event is about: the one it names and those of the
\* messages it names
EventConvs ==
  LET ms == ack.pre.msgs
  IN IF ack.event \in {"mark_read", "typing_start", "typing_stop"}
     THEN {ack.args[1]}
     ELSE IF ack.event = "mark_delivered"
     THEN {ack.args[1]} \cup {ms[m].conversationId : m \in ack.args[2] \cap DOMAIN ms}
     ELSE IF ack.args[1] \in DOMAIN ms THEN {ms[ack.args[1]].conversationId}
     ELSE {}

\* the receipts, reactions and hidden-for lists of the messages of c
MessageMarks(ms, c) ==
  [m \in {x \in DOMAIN ms : ms[x].conversationId = c} |->
     [reactions |-> ms[m].reactions, readBy |-> ms[m].readBy,
      deliveredTo |-> ms[m].deliveredTo, deletedFor |-> ms[m].deletedFor]]

TypingKeys(ty, c) == {k \in ty : k.conversationId = c}

\* C27: reaction add, remove and toggle, mark-read, mark-delivered, typing
\* start and stop and delete-for-self issued by a user without an active
\* participant record of the conversation leave reactions, readBy,
\* deliveredTo and deletedFor of its messages and its typing keys unchanged
\* and emit nothing.
C27_OutsiderChangesNothing ==
  (/\ \/ ack.event \in {"add_reaction", "remove_reaction", "toggle_reaction",
                        "mark_read", "mark_delivered", "typing_start", "typing_stop"}
      \/ ack.event = "delete_message" /\ ~ack.args[2]
   /\ EventConvs # {}
   /\ \A c \in EventConvs : ~ActiveRecord(ack.pre.parts, c, ack.pre.socks[ack.socket].userId))
  => /\ \A c \in EventConvs :
          /\ MessageMarks(msgs, c) = MessageMarks(ack.pre.msgs, c)
          /\ TypingKeys(typing, c) = TypingKeys(ack.pre.typing, c)
     /\ emits = <<>>

\* ---------------------------------------------------------------- claims on presence
\* C28: when the disconnect handler of a connection of user u has completed,
\* u is not in the online set, the presence hash of u has isOnline false and
\* the handler's instant as lastSeen, and a presence packet with isOnline
\* false went to the room of every active conversation in which u has an
\* active participant record.
C28_DisconnectOffline ==
  ack.event = "disconnect"
  => LET u == socks[ack.socket].userId
     IN /\ u \notin online
        /\ ~presence[u].isOnline
        /\ presence[u].lastSeen = clock
        /\ \A c \in DOMAIN convs :
             (convs[c].isActive /\ ActiveRecord(parts, c, u))
             => \E i \in DOMAIN emits :
                  /\ emits[i].event = "presence"
                  /\ emits[i].room = ConversationRoom(c)
                  /\ emits[i].data.userId = u
                  /\ ~emits[i].data.isOnline

\* ---------------------------------------------------------------- claims on direct conversations
\* C29: a direct conversation has exactly 2 distinct participants, no two
\* direct conversations have the same pair, addParticipants,
\* removeParticipant and leaveConversation leave the participants of every
\* direct conversation as they were, and createDirectConversation succeeds
\* for every pair of distinct users, whatever other direct conversations the
\* two have.
C29_DirectPairs ==
  /\ \A c \in DOMAIN convs :
       convs[c].type = "direct"
       => Len(convs[c].participants) = 2 /\ Cardinality(PairOf(c)) = 2
  /\ \A a \in Users, b \in Users : Cardinality(DirectConvsOf(a, b)) <= 1
  /\ last.op \in {"addParticipants", "removeParticipant", "leaveConversation"}
     => \A c \in DOMAIN last.pre.convs :
          last.pre.convs[c].type = "direct"
          => convs[c].participants = last.pre.convs[c].participants
  /\ (last.op = "createDirect" /\ last.args[1] # last.args[2]) => last.ok

\* ---------------------------------------------------------------- claims on participant records
\* an addParticipants call of connection p that has returned or thrown
AddDone(p) ==
  pc[p] = "idle" /\ loc[p].op = "addParticipants" /\ loc[p].status \in {"ok", "error"}

C30_WitnessReadded ==
  \E p \in Procs : AddDone(p) /\ loc[p].status = "ok" /\ loc[p].gone # {}

\* ---------------------------------------------------------------- specifications
\* ---------------------------------------------------------------- claims on the loss of the ephemeral store
\* the last call met an ephemeral store that did not answer all its commands
StoreDown ==
  \/ last.op \in {"setTyping", "clearTyping", "getTypingUsers"} /\ ~last.args[3]
  \/ last.op \in {"setUserOnline", "setUserOffline"} /\ last.args[2] < 2
  \/ last.op = "sendMessage" /\ Len(last.args) = 3

\* C31: when the ephemeral store is unavailable, setTyping, clearTyping,
\* setUserOnline and setUserOffline return without raising, getTypingUsers
\* returns an empty list, and a sendMessage that passes its validation succeeds:
\* the message is persisted, the conversation's last-message fields refer to
\* it, and the unreadCount of every other active participant went up by one
C31_OutageTolerated ==
  StoreDown =>
    /\ last.op # "sendMessage" => last.ok
    /\ last.op = "getTypingUsers" => last.ret = {}
    /\ last.op = "sendMessage" =>
         \/ /\ last.ok
            /\ LET c == last.args[1]
                   u == last.args[2]
                   m == last.ret
               IN /\ m = Len(msgs)
                  /\ msgs[m].conversationId = c /\ msgs[m].senderId = u
                  /\ convs[c].lastMessage = m
                  /\ convs[c].lastMessagePreview = GenerateMessagePreview(msgs[m].content)
                  /\ \A i \in DOMAIN parts :
                       parts[i].unreadCount =
                         last.pre[i] + (IF /\ parts[i].conversationId = c
                                           /\ parts[i].userId # u
                                           /\ parts[i].isActive THEN 1 ELSE 0)
         \/ /\ ~last.ok
            /\ last.ret \in {"NOT_PARTICIPANT", "EMPTY_MESSAGE"}

\* a message was sent while the store was down: the sender's typing key,
\* which could not be cleared, is still there, and the others' counts went up
C31_Witness ==
  /\ last.op = "sendMessage" /\ Len(last.args) = 3 /\ last.ok
  /\ \E k \in typing : k.conversationId = last.args[1] /\ k.userId = last.args[2]
  /\ \E i \in DOMAIN parts : parts[i].unreadCount > last.pre[i]

\* the typing users were asked for while keys existed and the store was down
C31_WitnessTyping ==
  /\ last.op = "getTypingUsers" /\ ~last.args[3]
  /\ GetTypingUsers(typing, last.args[1], clock) # {}

\* ---------------------------------------------------------------- claims on the fan-out
\* C32: a packet emitted to a room by one backend process is eventually
\* delivered to every connection that was in the room when it was emitted, on
\* whichever process the connection is held
C32_FanoutReachesAll ==
  \A i \in 1..(MaxPackets + 1) :
    (i \in DOMAIN emits) ~> (i \in DOMAIN emits /\ emits[i].members \subseteq emits[i].to)

\* a packet reached a connection held by another process than the emitting one
C32_Witness ==
  \E i \in DOMAIN emits :
    /\ emits[i].pending = {}
    /\ \E s \in emits[i].members \cap emits[i].to : SocketProcess[s] # emits[i].from

\* ---------------------------------------------------------------- claims on the last message
\* the messages persisted in conversation c, and the latest of them
MessagesOf(c) == {m \in DOMAIN msgs : msgs[m].conversationId = c}

LatestOf(c) == CHOOSE m \in MessagesOf(c) : \A n \in MessagesOf(c) : n <= m

\* C33: whenever no call is under way, the lastMessage of a conversation
\* that has a message refers to the message persisted last in it (and
\* lastMessageAt, written from the same message, is its creation time)
C33_LastMessageIsLatest ==
  (\A p \in Procs : pc[p] = "idle") =>
    \A c \in DOMAIN convs :
      MessagesOf(c) # {} => convs[c].lastMessage = LatestOf(c)

\* ---------------------------------------------------------------- claims on the edited flag
\* C34: isEdited becomes true (and editedAt, written with it, is set) only
\* through a successful editMessage by the sender of a message that is not
\* tombstoned; deleteMessage, for everyone or for self, leaves it as it was
C34_EditedOnlyByEdit ==
  /\ last.op = "deleteMessage" =>
       \A m \in DOMAIN last.pre : msgs[m].isEdited = last.pre[m].isEdited
  /\ last.op = "editMessage" =>
       \A m \in DOMAIN last.pre :
         msgs[m].isEdited /\ ~last.pre[m].isEdited =>
           /\ last.ok /\ m = last.args[1]
           /\ last.pre[m].senderId = last.args[2]
           /\ ~last.pre[m].isDeleted

\* ---------------------------------------------------------------- claims on replies
\* C35: every persisted message with a replyTo refers to an existing message
\* of its own conversation (a sendMessage naming another message is rejected
\* and persists nothing)
C35_ReplyToSameConversation ==
  \A m \in DOMAIN msgs :
    msgs[m].replyTo # 0 =>
      /\ msgs[m].replyTo \in DOMAIN msgs
      /\ msgs[msgs[m].replyTo].conversationId = msgs[m].conversationId

\* ---------------------------------------------------------------- claims on the two membership records
\* C36: whenever no call is under way, a user is in the participants array
\* of a group conversation exactly when the user has an active
\* ConversationParticipant record of it
C36_ArrayMatchesRecords ==
  (\A p \in Procs : pc[p] = "idle") =>
    \A c \in DOMAIN convs : \A u \in Users \cup Newcomers :
      convs[c].type = "group" =>
        (u \in Range(convs[c].participants) <=> ActiveRecord(parts, c, u))

\* ---------------------------------------------------------------- claims on presence with several devices
\* C37: a user with at least one open authenticated connection is reported
\* online: member of the online set, presence isOnline true
C37_LiveUserOnline ==
  \A s \in Sockets :
    socks[s].connected =>
      /\ socks[s].userId \in online
      /\ presence[socks[s].userId].isOnline

\* ---------------------------------------------------------------- claims on rooms after a removal
\* C38: an event broadcast to a conversation room is received only by
\* connections whose user is an active participant of the conversation; a
\* connection that had joined the room receives nothing of it once its user
\* was removed or has left
C38_RoomOnlyParticipants ==
  \A i \in DOMAIN emits :
    emits[i].room[1] = "conversation" =>
      \A s \in emits[i].to :
        ActiveRecord(parts, emits[i].room[2], socks[s].userId)

\* ---------------------------------------------------------------- claims on the preview
\* C39: whenever no call is under way, lastMessagePreview of a conversation is
\* the preview of the current content of the message lastMessage refers to
C39_PreviewOfLastMessage ==
  (\A p \in Procs : pc[p] = "idle") =>
    \A c \in DOMAIN convs :
      convs[c].lastMessage # 0 =>
        convs[c].lastMessagePreview =
          GenerateMessagePreview(msgs[convs[c].lastMessage].content)

Init ==
  /\ convs = <<>>
  /\ parts = <<>>
  /\ msgs = <<>>
  /\ typing = {}
  /\ clock = 0
  /\ pc = [p \in Procs |-> "idle"]
  /\ loc = [p \in Procs |-> Idle]
  /\ last = NoCall
  /\ prev = NoCall
  /\ directRet = {}
  /\ socks = [s \in Sockets |-> NoSocket]
  /\ emits = <<>>
  /\ ack = NoAck
  /\ online = {}
  /\ presence = [u \in Users \cup Newcomers |-> NoPresence]

NextDirect ==
  \/ (UNCHANGED sockVars /\ \E p \in Procs, a \in Users, b \in Users : CDLookup(p, a, b))
  \/ (UNCHANGED sockVars /\ \E p \in Procs : CDReactivate(p))
  \/ (UNCHANGED sockVars /\ \E p \in Procs : CDCreate(p))
  \/ (UNCHANGED sockVars /\ \E p \in Procs : CDInsert(p))
  \/ (UNCHANGED sockVars /\ \E a \in Users, b \in Users : CreateDirectSeq(a, b))

SpecDirect == Init /\ [][NextDirect]_vars

NextReact ==
  \/ (UNCHANGED sockVars /\ CreateDirectSeq(1, 2))
  \/ (UNCHANGED sockVars /\ (Len(msgs) < ReactMsgs /\ SendMessageSeq(1, 1, "hi")))
  \/ (UNCHANGED sockVars /\ \E p \in Procs, op \in {"addReaction", "toggleReaction"}, m \in DOMAIN msgs,
        u \in ReactUsers, e \in Emojis : RLoad(p, op, m, u, e))
  \/ (UNCHANGED sockVars /\ \E p \in Procs : RSave(p))
  \/ (UNCHANGED sockVars /\ \E m \in DOMAIN msgs, u \in ReactUsers, e \in Emojis : AddReactionSeq(m, u, e))
  \/ (UNCHANGED sockVars /\ \E m \in DOMAIN msgs, u \in ReactUsers, e \in Emojis : RemoveReaction(m, u, e))
  \/ (UNCHANGED sockVars /\ \E m \in DOMAIN msgs, u \in ReactUsers, e \in Emojis : ToggleReactionSeq(m, u, e))

SpecReact == Init /\ [][NextReact]_vars

NextRead ==
  \/ (UNCHANGED sockVars /\ (convs = <<>> /\ CreateDirectSeq(1, 2)))
  \/ (UNCHANGED sockVars /\ (convs = <<>> /\ CreateGroupSeq(1, "Trip", <<2, 3>>)))
  \/ (UNCHANGED sockVars /\ \E c \in DOMAIN convs, u \in Users, content \in {"hi", " "} :
        SendMessageSeq(c, u, content))
  \/ (UNCHANGED sockVars /\ Tick)
  \/ (UNCHANGED sockVars /\ \E c \in DOMAIN convs, u \in Readers, r \in 0..MaxMsgs : MarkAsReadSeq(c, u, r))

SpecRead == Init /\ [][NextRead]_vars

NextReceipts ==
  \/ (UNCHANGED sockVars /\ CreateDirectSeq(1, 2))
  \/ (UNCHANGED sockVars /\ CreateGroupSeq(1, "Trip", <<2, 3>>))
  \/ (UNCHANGED sockVars /\ \E c \in DOMAIN convs, u \in ReadUsers : SendMessageSeq(c, u, "hi"))
  \/ (UNCHANGED sockVars /\ Tick)
  \/ (UNCHANGED sockVars /\ \E p \in Procs, c \in DOMAIN convs, u \in Readers, r \in 0..MaxMsgs :
        MRReset(p, c, u, r))
  \/ (UNCHANGED sockVars /\ \E p \in Procs : MRFind(p))
  \/ (UNCHANGED sockVars /\ \E p \in Procs : MRUpdate(p))
  \/ (UNCHANGED sockVars /\ \E p \in Procs, c \in DOMAIN convs, u \in Readers : MDFind(p, c, u))
  \/ (UNCHANGED sockVars /\ \E p \in Procs : MDUpdate(p))
  \/ (UNCHANGED sockVars /\ \E ids \in SUBSET DOMAIN msgs, u \in Readers : MarkAsDelivered(ids, u))

SpecReceipts == Init /\ [][NextReceipts]_vars

NextDeliver ==
  \/ (UNCHANGED sockVars /\ (convs = <<>> /\ CreateDirectSeq(1, 2)))
  \/ (UNCHANGED sockVars /\ \E c \in DOMAIN convs, u \in ReadUsers : SendMessageSeq(c, u, "hi"))
  \/ (UNCHANGED sockVars /\ Tick)
  \/ (UNCHANGED sockVars /\ \E ids \in SUBSET (1..MaxMsgs), u \in Readers : MarkAsDeliveredSeq(ids, u))

SpecDeliver == Init /\ [][NextDeliver]_vars

NextEdit ==
  \/ (UNCHANGED sockVars /\ (convs = <<>> /\ CreateDirectSeq(1, 2)))
  \/ (UNCHANGED sockVars /\ \E atts \in AttachmentLists :
        Len(msgs) < EditMsgs /\ SendMessageWith(1, 1, "hi", atts))
  \/ (UNCHANGED sockVars /\ \E m \in 1..EditMsgs, u \in EditUsers : EditMessageSeq(m, u, "new"))
  \/ (UNCHANGED sockVars /\ \E m \in 1..EditMsgs, u \in EditUsers, fe \in BOOLEAN :
        DeleteMessageSeq(m, u, fe))

SpecEdit == Init /\ [][NextEdit]_vars

NextEditRace ==
  \/ (UNCHANGED sockVars /\ (convs = <<>> /\ CreateDirectSeq(1, 2)))
  \/ (UNCHANGED sockVars /\ \E atts \in AttachmentLists :
        Len(msgs) < EditMsgs /\ SendMessageWith(1, 1, "hi", atts))
  \/ (UNCHANGED sockVars /\ \E m \in DOMAIN msgs : AddReactionSeq(m, 2, "like"))
  \/ (UNCHANGED sockVars /\ \E p \in Procs, m \in 1..EditMsgs, u \in EditUsers : ELoad(p, m, u, "new"))
  \/ (UNCHANGED sockVars /\ \E p \in Procs : ESave(p))
  \/ (UNCHANGED sockVars /\ \E p \in Procs : EPreview(p))
  \/ (UNCHANGED sockVars /\ \E p \in Procs, m \in 1..EditMsgs, u \in EditUsers, fe \in BOOLEAN :
        DLoad(p, m, u, fe))
  \/ (UNCHANGED sockVars /\ \E p \in Procs : DSave(p))
  \/ (UNCHANGED sockVars /\ \E p \in Procs : DSelf(p))

SpecEditRace == Init /\ [][NextEditRace]_vars

NextMember ==
  \/ (UNCHANGED sockVars /\ (convs = <<>> /\ CreateDirectSeq(1, 2)))
  \/ (UNCHANGED sockVars /\ (convs = <<>> /\ CreateGroupSeq(1, "Trip", <<2, 3>>)))
  \/ (UNCHANGED sockVars /\ \E c \in DOMAIN convs, a \in Users, ids \in MemberIdLists :
        AddParticipantsSeq(c, a, ids))
  \/ (UNCHANGED sockVars /\ \E c \in DOMAIN convs, a \in Users, u \in Users : RemoveParticipantSeq(c, a, u))
  \/ (UNCHANGED sockVars /\ \E c \in DOMAIN convs, u \in Users : LeaveConversationSeq(c, u))

SpecMember == Init /\ [][NextMember]_vars

NextMemberRace ==
  \/ (UNCHANGED sockVars /\ (convs = <<>> /\ CreateGroupSeq(1, "Trip", <<2, 3>>)))
  \/ (UNCHANGED sockVars /\ \E p \in Procs, c \in DOMAIN convs, a \in Users, u \in Users :
        RPCheck(p, c, a, u))
  \/ (UNCHANGED sockVars /\ \E p \in Procs, c \in DOMAIN convs, u \in Users : LCCheck(p, c, u))
  \/ (UNCHANGED sockVars /\ \E p \in Procs : MDeactivate(p))
  \/ (UNCHANGED sockVars /\ \E p \in Procs : MPull(p))
  \/ (UNCHANGED sockVars /\ \E p \in Procs : MSystem(p))
  \/ (UNCHANGED sockVars /\ \E c \in DOMAIN convs, u \in Users \cup Newcomers : SendMessageSeq(c, u, "hi"))

SpecMemberRace == Init /\ [][NextMemberRace]_vars

NextGroup ==
  \/ (UNCHANGED sockVars /\ \E creator \in Users, name \in GroupNames, ids \in GroupIdLists :
        CreateGroupSeq(creator, name, ids))
  \/ (UNCHANGED sockVars /\ \E c \in DOMAIN convs, u \in Users : SendMessageSeq(c, u, "hi"))

SpecGroup == Init /\ [][NextGroup]_vars

NextPin ==
  \/ (UNCHANGED sockVars /\ (convs = <<>> /\ CreateDirectSeq(1, 2)))
  \/ (UNCHANGED sockVars /\ \E c \in DOMAIN convs : SendMessageSeq(c, 1, "hi"))
  \/ (UNCHANGED sockVars /\ \E p \in Procs, pin \in BOOLEAN, m \in 1..MaxMsgs, u \in Users :
        PLoad(p, pin, m, u))
  \/ (UNCHANGED sockVars /\ \E p \in Procs : PAccess(p))
  \/ (UNCHANGED sockVars /\ \E p \in Procs : PSave(p))
  \/ (UNCHANGED sockVars /\ \E p \in Procs : PList(p))

SpecPin == Init /\ [][NextPin]_vars

NextTyping ==
  \/ (UNCHANGED sockVars /\ \E c \in TypingConvs, u \in TypingUsers : SetTypingSeq(c, u))
  \/ (UNCHANGED sockVars /\ \E c \in TypingConvs, u \in TypingUsers : ClearTypingSeq(c, u))
  \/ (UNCHANGED sockVars /\ TypingTick)

SpecTyping == Init /\ [][NextTyping]_vars

NextJoin ==
  \/ (Quiet /\ convs = <<>> /\ CreateGroupSeq(1, "Trip", <<2, 3>>))
  \/ (Quiet /\ \E c \in DOMAIN convs, u \in ReadUsers : SendMessageSeq(c, u, "hi"))
  \/ \E s \in JoinSockets : Connect(s)
  \/ \E s \in JoinSockets, c \in 1..MaxConvs : OnJoinConversation(s, c)
  \/ \E s \in JoinSockets, c \in 1..MaxConvs : OnLeaveConversation(s, c)

SpecJoin == Init /\ [][NextJoin]_vars

NextJoinRace ==
  \/ (Quiet /\ convs = <<>> /\ CreateGroupSeq(1, "Trip", <<2, 3>>))
  \/ (Quiet /\ \E p \in Procs, c \in DOMAIN convs : RPCheck(p, c, 1, 2))
  \/ (Quiet /\ \E p \in Procs : MDeactivate(p))
  \/ (Quiet /\ \E p \in Procs : MPull(p))
  \/ (Quiet /\ \E p \in Procs : MSystem(p))
  \/ \E s \in Sockets : Connect(s)
  \/ \E s \in Sockets, c \in 1..MaxConvs : OnJoinConversation(s, c)

SpecJoinRace == Init /\ [][NextJoinRace]_vars

NextSend ==
  \/ (Quiet /\ convs = <<>> /\ CreateGroupSeq(1, "Trip", <<2, 3>>))
  \/ \E s \in Sockets : Connect(s)
  \/ \E s \in Sockets, c \in 1..MaxConvs : OnJoinConversation(s, c)
  \/ \E s \in Sockets, c \in 1..MaxConvs, content \in {"hi", " "} :
        OnSendMessage(s, c, content)
  \/ \E u \in ReadUsers, c \in 1..MaxConvs, content \in {"hi", " "} :
        RestSendMessage(u, c, content)

SpecSend == Init /\ [][NextSend]_vars

NextEvents ==
  \/ (Quiet /\ convs = <<>> /\ CreateGroupSeq(1, "Trip", <<2, 3>>))
  \/ \E s \in EventSockets : Connect(s)
  \/ \E s \in EventSockets, c \in 1..MaxConvs : OnJoinConversation(s, c)
  \/ \E c \in 1..MaxConvs : OnSendMessage(1, c, "hi")
  \/ \E m \in 1..ReactMsgs : OnEditMessage(1, m, "new")
  \/ \E m \in 1..ReactMsgs, fe \in BOOLEAN : OnDeleteMessage(1, m, fe)
  \/ \E c \in 1..MaxConvs : OnMarkRead(2, c, 0)
  \/ \E c \in 1..MaxConvs, ids \in SUBSET (1..MaxMsgs) : OnMarkDelivered(2, c, ids)
  \/ \E m \in 1..ReactMsgs, e \in Emojis : OnAddReaction(2, m, e)

SpecEvents == Init /\ [][NextEvents]_vars

NextOutsider ==
  \/ (Quiet /\ convs = <<>> /\ CreateGroupSeq(1, "Trip", <<3, 4>>))
  \/ \E s \in EventSockets : Connect(s)
  \/ \E s \in EventSockets, c \in 1..MaxConvs : OnJoinConversation(s, c)
  \/ \E c \in 1..MaxConvs : OnSendMessage(1, c, "hi")
  \/ \E c \in 1..MaxConvs : OnTypingStart(2, c)
  \/ \E c \in 1..MaxConvs : OnTypingStop(2, c)
  \/ \E c \in 1..MaxConvs : OnMarkRead(2, c, 0)
  \/ \E c \in 1..MaxConvs, ids \in SUBSET (1..ReactMsgs) : OnMarkDelivered(2, c, ids)
  \/ \E m \in 1..ReactMsgs : OnDeleteMessage(2, m, FALSE)
  \/ \E m \in 1..ReactMsgs, e \in Emojis : OnAddReaction(2, m, e)
  \/ \E m \in 1..ReactMsgs, e \in Emojis : OnRemoveReaction(2, m, e)
  \/ \E m \in 1..ReactMsgs, e \in Emojis : OnToggleReaction(2, m, e)

SpecOutsider == Init /\ [][NextOutsider]_vars

NextPresence ==
  \/ (Quiet /\ convs = <<>> /\ CreateGroupSeq(1, "Trip", <<2, 3>>))
  \/ (Quiet /\ \E c \in DOMAIN convs, u \in ReadUsers : ArchiveConversation(c, u))
  \/ (Quiet /\ Tick)
  \/ \E s \in Sockets : Connect(s)
  \/ \E s \in Sockets, c \in 1..MaxConvs : OnJoinConversation(s, c)
  \/ \E s \in Sockets : OnDisconnect(s)

SpecPresence == Init /\ [][NextPresence]_vars

NextDirectMember ==
  \/ (UNCHANGED sockVars /\ \E a \in Users, b \in Users : CreateDirectSeq(a, b))
  \/ (UNCHANGED sockVars /\ \E c \in DOMAIN convs, a \in Users, ids \in MemberIdLists :
        AddParticipantsSeq(c, a, ids))
  \/ (UNCHANGED sockVars /\ \E c \in DOMAIN convs, a \in Users, u \in Users :
        RemoveParticipantSeq(c, a, u))
  \/ (UNCHANGED sockVars /\ \E c \in DOMAIN convs, u \in Users : LeaveConversationSeq(c, u))

SpecDirectMember == Init /\ [][NextDirectMember]_vars

NextAddRace ==
  \/ (UNCHANGED sockVars /\ convs = <<>> /\ CreateGroupSeq(1, "Trip", <<2, 3>>))
  \/ (UNCHANGED sockVars /\ (\A p \in Procs : loc[p] = Idle)
        /\ \E c \in DOMAIN convs : RemoveParticipantSeq(c, 1, 2))
  \/ (UNCHANGED sockVars /\ \E p \in Procs, c \in DOMAIN convs, ids \in MemberIdLists :
        APCheck(p, c, 1, ids))
  \/ (UNCHANGED sockVars /\ \E p \in Procs : APFind(p))
  \/ (UNCHANGED sockVars /\ \E p \in Procs : APWrite(p))
  \/ (UNCHANGED sockVars /\ \E p \in Procs : APAddToSet(p))
  \/ (UNCHANGED sockVars /\ \E p \in Procs : APSystem(p))

SpecAddRace == Init /\ [][NextAddRace]_vars

NextOutage ==
  \/ (UNCHANGED sockVars /\ convs = <<>> /\ CreateGroupSeq(1, "Trip", <<2, 3>>))
  \/ \E c \in TypingConvs, u \in TypingUsers, up \in BOOLEAN : SetTypingTry(c, u, up)
  \/ \E c \in TypingConvs, u \in TypingUsers, up \in BOOLEAN : ClearTypingTry(c, u, up)
  \/ \E c \in TypingConvs, up \in BOOLEAN : GetTypingUsersTry(c, up)
  \/ \E u \in Readers, n \in 0..2 : SetUserOnlineTry(u, n)
  \/ \E u \in Readers, n \in 0..2 : SetUserOfflineTry(u, n)
  \/ (UNCHANGED sockVars
        /\ \E c \in TypingConvs, u \in TypingUsers \cup Newcomers,
              content \in {"hi", " "}, up \in BOOLEAN :
             SendMessageUp(c, u, content, <<>>, up))

SpecOutage == Init /\ [][NextOutage]_vars

NextFanout ==
  \/ \E s \in Sockets : FanConnect(s)
  \/ \E s \in Sockets, c \in TypingConvs : FanJoin(s, c)
  \/ \E p \in Procs, c \in TypingConvs : EmitToRoom(p, ConversationRoom(c), "message:new")
  \/ \E p \in Procs, u \in Readers : EmitToRoom(p, UserRoom(u), "message:new")
  \/ \E q \in Procs, i \in 1..(MaxPackets + 1) : AdapterDeliver(q, i)

\* a subscribed process receives what was published and handles it
SpecFanout ==
  /\ Init /\ [][NextFanout]_vars
  /\ \A q \in Procs, i \in 1..(MaxPackets + 1) : WF_vars(AdapterDeliver(q, i))

NextSendRace ==
  \/ (UNCHANGED sockVars /\ convs = <<>> /\ CreateDirectSeq(1, 2))
  \/ (UNCHANGED sockVars /\ Tick)
  \/ (UNCHANGED sockVars /\ \E p \in Procs, c \in DOMAIN convs, u \in ReadUsers,
                               content \in {"hi", "yo", " "} : SMCheck(p, c, u, content))
  \/ (UNCHANGED sockVars /\ \E p \in Procs : SMCreate(p))
  \/ (UNCHANGED sockVars /\ \E p \in Procs : SMUpdate(p))
  \/ (UNCHANGED sockVars /\ \E p \in Procs : SMUnread(p))
  \/ (UNCHANGED sockVars /\ \E p \in Procs : SMClear(p))

SpecSendRace == Init /\ [][NextSendRace]_vars

NextReply ==
  \/ (UNCHANGED sockVars /\ CreateDirectSeq(1, 2))
  \/ (UNCHANGED sockVars /\ CreateDirectSeq(3, 4))
  \/ (UNCHANGED sockVars /\ \E c \in 1..MaxConvs, u \in Users, content \in {"hi", " "} :
        SendMessageSeq(c, u, content))
  \/ (UNCHANGED sockVars /\ \E c \in 1..MaxConvs, u \in Users, r \in ReplyIds :
        SendMessageOpts(c, u, "re", <<>>, r, TRUE))
  \/ (UNCHANGED sockVars /\ \E m \in 1..MaxMsgs, u \in ReadUsers : DeleteMessageSeq(m, u, FALSE))

SpecReply == Init /\ [][NextReply]_vars

NextRemoved ==
  \/ (Quiet /\ convs = <<>> /\ CreateGroupSeq(1, "Trip", <<2, 3>>))
  \/ \E s \in EventSockets : Connect(s)
  \/ \E s \in EventSockets, c \in 1..MaxConvs : OnJoinConversation(s, c)
  \/ \E c \in 1..MaxConvs, a \in ReadUsers : RestRemoveParticipant(a, c, 2)
  \/ \E c \in 1..MaxConvs : RestLeaveConversation(2, c)
  \/ \E c \in 1..MaxConvs : OnSendMessage(1, c, "hi")
  \/ \E s \in EventSockets, c \in 1..MaxConvs : OnTypingStart(s, c)

SpecRemoved == Init /\ [][NextRemoved]_vars

====
